---- MODULE Spec2Model ----
(***************************************************************************)
(* A model of the vibescan scan route: the POST handler, runScan and its   *)
(* probes (src/unnamed/part_002, the current version of the route), the    *)
(* older sensitive-path probe kept in src/app/api/scan/route.ts, and two   *)
(* helpers of the pages: redactValue and the scan history.                 *)
(*                                                                         *)
(* The specifications share the variables:                                 *)
(*   Spec          one POST request: validation, the global timer, the     *)
(*                 five concurrent probes, the Data-Exposure probe, the    *)
(*                 synthesis of the report and the response;               *)
(*   SpecValidate  checkSensitivePaths' treatment of one response, for     *)
(*                 every path of the catalog;                              *)
(*   SpecKeys      detectApiKeys over the scanned bundles and runScan's    *)
(*                 choice of the credential for the Data-Exposure probe;   *)
(*   SpecData      checkSupabaseDataExposure from its call to its return;  *)
(*   SpecTimed     one POST request against the clock: per-call timeouts,  *)
(*                 the deadline, answers that never come (SpecTimedFair    *)
(*                 adds the fairness of the event loop);                   *)
(*   SpecPreview   what the report keeps of a matched secret;              *)
(*   SpecUrls      discoverUrls from the answers of its four sources;      *)
(*   SpecRedact    redactValue of the scan page (src/app/scan/page.tsx);   *)
(*   SpecFetch     one call of fetchWithTimeout and the caller's read of   *)
(*                 the body, against the clock (SpecFetchFair adds the     *)
(*                 fairness of the event loop);                            *)
(*   SpecOrder     runScan against a target with fixed answers, the        *)
(*                 probes and the path requests completing in any order;   *)
(*   SpecHistory   the scan history in localStorage (src/app/layout.tsx).  *)
(***************************************************************************)
EXTENDS Integers, Sequences, FiniteSets, TLC

VARIABLES
    input,          \* the request body handed to POST
    post,           \* POST's position: "start", "awaiting", "responded"
    response,       \* the response POST returned, or NoResponse
    timer,          \* the global deadline timer: "unset", "armed", "fired"
    race,           \* Promise.race: "none", "pending", "scan", "timeout"
    scan,           \* runScan's position: "idle", "probes", "dx", "done"
    baseUrl,        \* the normalized target
    checks,         \* runScan's checks array
    slots,          \* the five promises handed to Promise.allSettled
    probeFailed,    \* (history) the probes, and the paths, all of whose requests threw
    pathPending,    \* checkSensitivePaths: callbacks still running
    exposed,        \* checkSensitivePaths: its exposed array
    dx,             \* checkSupabaseDataExposure: "idle", "catalog", "tables", "returned"
    dxKey,          \* the key checkSupabaseDataExposure was called with
    tableNames,     \* its tableNames
    tablePending,   \* its table callbacks still running
    tables,         \* its tables array
    blockedTables,  \* its blockedTables array
    dataLeaks,      \* runScan's dataLeaks
    backendReqs,    \* (history) requests sent to the backend service
    dxSeen,         \* (history) how the catalog request and the table queries went
    report,         \* the value runScan resolved with, or NoReport
    vPath, vResp,   \* SpecValidate: the path and the response it got
    vStep,          \* SpecValidate: which versions have handled it
    vExposed,       \* SpecValidate: exposed of part_002's checkSensitivePaths
    vExposedHead,   \* SpecValidate: exposed of route.ts's checkSensitivePaths
    vChecks,        \* SpecValidate: the findings runScan makes of vExposed
    kInput,         \* SpecKeys: the homepage and bundles detectApiKeys reads
    kStep,          \* SpecKeys: "input", "detected", "found"
    kFindings,      \* SpecKeys: what detectApiKeys returned
    kCred,          \* SpecKeys: the finding runScan's find selected
    now,            \* SpecTimed: seconds since POST was called
    tTarget,        \* SpecTimed: how the target answers each probe's requests
    tReq,           \* SpecTimed: each probe's position in its chain of requests
    tTimer,         \* SpecTimed: the global deadline timer
    tAnswers,       \* SpecTimed: the responses POST returned, in order
    tScan,          \* SpecTimed: runScan's position
    tLate,          \* SpecTimed: (history) a request was started after 'Scan timeout'
    uInput,         \* SpecUrls: what the four sources of discoverUrls answer
    uStep,          \* SpecUrls: "input", "returned"
    uResult,        \* SpecUrls: the list discoverUrls returned
    sMatch,         \* SpecPreview: a pattern and the text it matched in a bundle
    sStep,          \* SpecPreview: "matched", "reported"
    sCheck,         \* SpecPreview: the finding runScan made of the match
    sKeyPreview,    \* SpecPreview: keyPreview of the report's dataLeaks
    rCol, rValue,   \* SpecRedact: the column and the cell value redactValue is called with
    rStep,          \* SpecRedact: "called", "returned"
    rOut,           \* SpecRedact: the string redactValue returned
    fNow,           \* SpecFetch: seconds since fetchWithTimeout was called
    fTimeout,       \* SpecFetch: timeoutMs of the call, in seconds
    fAnswer,        \* SpecFetch: when and how the server answers the request
    fPromise,       \* SpecFetch: the promise fetchWithTimeout returned
    fTimer,         \* SpecFetch: the call's setTimeout: "unset", "armed", "cleared", "fired"
    fRequest,       \* SpecFetch: the underlying request
    fBody,          \* SpecFetch: the caller's read of the response body
    fSettled,       \* SpecFetch: (history) how often the promise was settled
    fLate,          \* SpecFetch: (history) the timer fired after the promise had settled
    oTarget,        \* SpecOrder: the target's answer to each request of the scan
    oCorsSent,      \* SpecOrder: how many of its endpoints checkCors has requested
    hStore,         \* SpecHistory: the parsed value of localStorage['vibescan-history']
    hFresh,         \* SpecHistory: how many different sites have been scanned and saved
    hStamp,         \* SpecHistory: how many saves have written (the entries' scannedAt)
    hEdits,         \* SpecHistory: how many re-saves, removals and clears were made
    hLastSaved      \* SpecHistory: (history) the entry the most recent save wrote

scanVars == <<input, post, response, timer, race, scan, baseUrl, checks, slots,
              probeFailed, pathPending, exposed, dataLeaks, report>>
dxVars == <<dx, dxKey, tableNames, tablePending, tables, blockedTables, backendReqs, dxSeen>>
vVars == <<vPath, vResp, vStep, vExposed, vExposedHead, vChecks>>
kVars == <<kInput, kStep, kFindings, kCred>>
tVars == <<now, tTarget, tReq, tTimer, tAnswers, tScan, tLate>>
uVars == <<uInput, uStep, uResult>>
sVars == <<sMatch, sStep, sCheck, sKeyPreview>>
rVars == <<rCol, rValue, rStep, rOut>>
fVars == <<fNow, fTimeout, fAnswer, fPromise, fTimer, fRequest, fBody, fSettled, fLate>>
oVars == <<oTarget, oCorsSent>>
hVars == <<hStore, hFresh, hStamp, hEdits, hLastSaved>>
unitVars == <<rVars, fVars, oVars, hVars>>
vars == <<scanVars, dxVars, vVars, kVars, tVars, uVars, sVars, unitVars>>

----------------------------------------------------------------------------
(* Bounds of the model *)

\* most tables the backend's schema catalog lists (the code caps at 12)
MaxTables == 3
\* most rows a table query answers with (the query asks for limit=3)
MaxRows == 4
\* most content marks one response body carries (SpecValidate)
MaxMarks == 2
\* most JWT-shaped strings in the scanned bundles together (SpecKeys)
MaxJwts == 2

----------------------------------------------------------------------------
(* General helpers *)

Range(s) == {s[i] : i \in 1..Len(s)}

Min(a, b) == IF a < b THEN a ELSE b

Max(a, b) == IF a > b THEN a ELSE b

\* Array.prototype.filter(...).length
CountWhere(s, Test(_)) == Len(SelectSeq(s, Test))

\* Array.prototype.slice(0, n)
Slice(s, n) == SubSeq(s, 1, Min(n, Len(s)))

Null == "null"

----------------------------------------------------------------------------
(* The request and its validation (POST) *)

\* A url string is kept as its parts: the scheme prefix it starts with (""
\* when it has none), the host text, and whether it ends with a slash.
RawUrls ==
    { [scheme |-> "", host |-> "example.com", slash |-> TRUE],
      [scheme |-> "http://", host |-> "example.com", slash |-> FALSE],
      [scheme |-> "", host |-> "exa mple", slash |-> FALSE] }

NoUrl == [scheme |-> "", host |-> "", slash |-> FALSE]

\* The request bodies: not JSON at all; JSON whose url is missing or empty;
\* JSON whose url is a truthy non-string; JSON with a url string.
Inputs ==
    { [json |-> FALSE, kind |-> "none", url |-> NoUrl] }
    \cup { [json |-> TRUE, kind |-> k, url |-> NoUrl] : k \in {"missing", "nonstring"} }
    \cup { [json |-> TRUE, kind |-> "string", url |-> u] : u \in RawUrls }

normalizeUrl(url) ==
    [scheme |-> IF url.scheme \notin {"http://", "https://"} THEN "https://" ELSE url.scheme,
     host |-> url.host,
     slash |-> FALSE]

\* a plausible slip: the normalized url is not validated
UrlParsesAny(url) == TRUE

\* new URL(baseUrl) throws on a host that is no host
UrlParses(url) == url.host \in {"example.com"}

NoResponse == [status |-> 0]

ErrorResponse(code, message) == [status |-> code, error |-> message]

\* POST's answer to a malformed request, or NoResponse when the request is valid
InputError(in) ==
    IF ~in.json THEN ErrorResponse(400, "Invalid request")
    ELSE IF in.kind = "missing" THEN ErrorResponse(400, "URL is required")
    ELSE IF in.kind = "nonstring" THEN ErrorResponse(400, "Invalid request")
    ELSE IF ~UrlParses(normalizeUrl(in.url)) THEN ErrorResponse(400, "Invalid URL")
    ELSE NoResponse

----------------------------------------------------------------------------
(* Findings *)

Finding(id, category, status, value) ==
    [id |-> id, category |-> category, status |-> status, value |-> value]

Statuses == <<"critical", "warning", "pass", "info">>

SslFinding(url) ==
    Finding("ssl", "ssl", IF url.scheme = "https://" THEN "pass" ELSE "critical", Null)

----------------------------------------------------------------------------
(* Sensitive Path Prober *)

SENSITIVE_PATHS ==
    << "/.env", "/.env.local", "/.env.production", "/.git/config", "/package.json",
       "/config.json", "/database.json", "/api/users", "/api/admin", "/api/config",
       "/admin", "/internal", "/debug", "/wp-admin", "/phpinfo.php" >>

\* Content types a response carries; "" when the header is absent.
ContentTypes == {"text/html; charset=utf-8", "application/json", ""}

\* contentType.includes('text/html')
IncludesTextHtml(ct) == ct \in {"text/html", "text/html; charset=utf-8"}

\* What a body contains, as far as the validators and the SPA heuristic look:
\*   idroot id="root"; idapp id="app"; nextdata __NEXT_DATA__; nextstatic
\*   _next/static; scripttag <script; bundleword bundle; gitsection [core],
\*   [remote or [branch; envline a line KEY=value; json: parses as JSON;
\*   pkgjson: parses as JSON with name and dependencies; usersjson: parses as a
\*   JSON array or an object with users, data or email; phpinfo: PHP Version or
\*   phpinfo; wpmark: wp-login, WordPress or wp-admin.
Marks ==
    { "idroot", "idapp", "nextdata", "nextstatic", "scripttag", "bundleword",
      "gitsection", "envline", "json", "pkgjson", "usersjson", "phpinfo", "wpmark" }

\* body.length: "tiny" at most 10, "mid" below 10000, "big" from 10000 on
Lengths == {"tiny", "mid", "big"}

ParsesJson(body) == body.marks \cap {"json", "pkgjson", "usersjson"} # {}

\* Bodies that exist: JSON text has no KEY=value line, a JSON object with name
\* and dependencies is longer than 10, and 10 characters hold one mark at most.
WellFormedBody(body) ==
    /\ ~(ParsesJson(body) /\ "envline" \in body.marks)
    /\ ("pkgjson" \in body.marks => body.len # "tiny")
    /\ (body.len = "tiny" => Cardinality(body.marks) <= 1)

Bodies ==
    { b \in [marks : {m \in SUBSET Marks : Cardinality(m) <= MaxMarks}, len : Lengths] :
        WellFormedBody(b) }

\* threw: the request or the reading of its body threw (network error, abort)
FailedResponse ==
    [threw |-> TRUE, status |-> 0, ct |-> "", body |-> [marks |-> {}, len |-> "tiny"]]

PathResponses ==
    {FailedResponse}
    \cup { [threw |-> FALSE, status |-> st, ct |-> ct, body |-> b] :
              st \in {200, 404}, ct \in ContentTypes, b \in Bodies }

HasValidator(path) ==
    path \in { "/.git/config", "/.env", "/.env.local", "/.env.production",
               "/package.json", "/database.json", "/config.json", "/api/users",
               "/api/admin", "/api/config", "/phpinfo.php", "/wp-admin" }

PATH_VALIDATORS(path, b, ct) ==
    CASE path = "/.git/config" -> "gitsection" \in b.marks
      [] path \in {"/.env", "/.env.local", "/.env.production"} ->
            ~IncludesTextHtml(ct) /\ "envline" \in b.marks
      [] path = "/package.json" -> "pkgjson" \in b.marks
      [] path \in {"/database.json", "/config.json"} -> ParsesJson(b) /\ b.len # "tiny"
      [] path = "/api/users" -> "usersjson" \in b.marks
      [] path \in {"/api/admin", "/api/config"} -> ~IncludesTextHtml(ct)
      [] path = "/phpinfo.php" -> "phpinfo" \in b.marks
      [] path = "/wp-admin" -> "wpmark" \in b.marks

\* a plausible slip: the root-mount markers are not looked for
isSpaFallbackNoRoot(body, contentType) ==
    IF ~IncludesTextHtml(contentType) THEN FALSE
    ELSE \/ "nextdata" \in body.marks
         \/ "nextstatic" \in body.marks
         \/ ("scripttag" \in body.marks /\ "bundleword" \in body.marks /\ body.len # "big")

isSpaFallback(body, contentType) ==
    IF ~IncludesTextHtml(contentType) THEN FALSE
    ELSE \/ "idroot" \in body.marks
         \/ "idapp" \in body.marks
         \/ "nextdata" \in body.marks
         \/ "nextstatic" \in body.marks
         \/ ("scripttag" \in body.marks /\ "bundleword" \in body.marks /\ body.len # "big")

ExposedEntry(path, status) == [path |-> path, status |-> status]

\* The callback checkSensitivePaths runs for one path (part_002): what it
\* pushes onto exposed.
PathCallback(path, res) ==
    IF res.threw THEN <<>>
    ELSE IF res.status # 200 THEN <<>>
    ELSE IF isSpaFallback(res.body, res.ct) THEN <<>>
    ELSE IF HasValidator(path) /\ ~PATH_VALIDATORS(path, res.body, res.ct) THEN <<>>
    ELSE IF ~HasValidator(path) /\ IncludesTextHtml(res.ct) THEN <<>>
    ELSE <<ExposedEntry(path, res.status)>>

\* The callback of the older checkSensitivePaths (route.ts): a HEAD request,
\* judged by its status alone.
PathCallbackHead(path, res) ==
    IF res.threw THEN <<>>
    ELSE IF res.status = 200 THEN <<ExposedEntry(path, res.status)>>
    ELSE <<>>

\* path.replace(/\//g, '-')
PathSlug(path) ==
    CASE path = "/.env" -> "-.env"
      [] path = "/.env.local" -> "-.env.local"
      [] path = "/.env.production" -> "-.env.production"
      [] path = "/.git/config" -> "-.git-config"
      [] path = "/package.json" -> "-package.json"
      [] path = "/config.json" -> "-config.json"
      [] path = "/database.json" -> "-database.json"
      [] path = "/api/users" -> "-api-users"
      [] path = "/api/admin" -> "-api-admin"
      [] path = "/api/config" -> "-api-config"
      [] path = "/admin" -> "-admin"
      [] path = "/internal" -> "-internal"
      [] path = "/debug" -> "-debug"
      [] path = "/wp-admin" -> "-wp-admin"
      [] path = "/phpinfo.php" -> "-phpinfo.php"

CriticalPaths == {"/.env", "/.env.local", "/.env.production", "/.git/config", "/database.json"}

ExposureFinding(e) ==
    Finding("exposure-" \o PathSlug(e.path), "exposure",
            IF e.path \in CriticalPaths THEN "critical" ELSE "warning", e.path)

\* runScan's "Sensitive paths" section
SensitivePathFindings(exp) ==
    IF Len(exp) = 0
    THEN << Finding("sensitive-paths", "exposure", "pass", Null) >>
    ELSE [i \in 1..Len(exp) |-> ExposureFinding(exp[i])]


----------------------------------------------------------------------------
(* Header Inspector *)

HeaderKeys ==
    << "strict-transport-security", "content-security-policy", "x-frame-options",
       "x-content-type-options", "referrer-policy", "permissions-policy" >>

HeaderNames == Range(HeaderKeys)

\* res.headers.get(key): Null when the header is absent, else its text
NoHeaders == [k \in HeaderNames |-> Null]

HeadersWith(present) == [k \in HeaderNames |-> IF k \in present THEN "set" ELSE Null]

\* The homepage answers the model follows: no security header, HSTS and CSP
\* only, all six, all six with an empty HSTS value; or the request throws.
HomeResponses ==
    { [threw |-> TRUE, headers |-> NoHeaders] }
    \cup { [threw |-> FALSE, headers |-> h] :
             h \in { NoHeaders,
                     HeadersWith({"strict-transport-security", "content-security-policy"}),
                     HeadersWith(HeaderNames),
                     [HeadersWith(HeaderNames) EXCEPT !["strict-transport-security"] = ""] } }

Fulfilled(v) == [status |-> "fulfilled", value |-> v]

Rejected(v) == [status |-> "rejected", value |-> v]

\* a plausible slip: no try/catch around the request
checkSecurityHeadersNoCatch(res) ==
    IF res.threw THEN Rejected(NoHeaders) ELSE Fulfilled(res.headers)

checkSecurityHeaders(res) ==
    IF res.threw THEN Fulfilled(NoHeaders) ELSE Fulfilled(res.headers)

\* JavaScript truthiness of a string or null
Truthy(v) == v \notin {Null, ""}

\* a plausible slip: the two branches of the ternary are swapped
HeaderFindingSwapped(key, value) ==
    Finding("header-" \o key, "headers", IF Truthy(value) THEN "warning" ELSE "pass",
            IF Truthy(value) THEN value ELSE Null)

HeaderFinding(key, value) ==
    Finding("header-" \o key, "headers", IF Truthy(value) THEN "pass" ELSE "warning",
            IF Truthy(value) THEN value ELSE Null)

\* runScan's "Security headers" section
HeaderFindings(headers) ==
    [i \in 1..Len(HeaderKeys) |-> HeaderFinding(HeaderKeys[i], headers[HeaderKeys[i]])]

----------------------------------------------------------------------------
(* CORS Prober *)

\* access-control-allow-origin of one endpoint's answer, or the request throws
CorsResponses ==
    { [threw |-> TRUE, acao |-> Null] }
    \cup { [threw |-> FALSE, acao |-> a] : a \in {Null, "*", "https://example.com"} }

CorsClosed == [open |-> FALSE, header |-> Null]

RECURSIVE CorsLoop(_, _)
CorsLoop(resps, i) ==
    IF i > Len(resps) THEN CorsClosed
    ELSE IF ~resps[i].threw /\ resps[i].acao = "*" THEN [open |-> TRUE, header |-> "*"]
    ELSE CorsLoop(resps, i + 1)

\* resps: the answers of the two endpoints, in the order they are asked
checkCors(resps) == Fulfilled(CorsLoop(resps, 1))

CorsFinding(c) ==
    Finding("cors", "headers", IF c.open THEN "warning" ELSE "pass",
            IF Truthy(c.header) THEN c.header ELSE Null)

----------------------------------------------------------------------------
(* Secret Scanner *)

SECRET_PATTERNS ==
    << [name |-> "Supabase URL", severity |-> "warning"],
       [name |-> "OpenAI API Key", severity |-> "critical"],
       [name |-> "Stripe Live Key", severity |-> "critical"],
       [name |-> "Stripe Test Key", severity |-> "warning"],
       [name |-> "Google API Key", severity |-> "critical"],
       [name |-> "NEXT_PUBLIC Secret", severity |-> "warning"],
       [name |-> "Supabase JWT", severity |-> "critical"] >>

\* most script bundles detectApiKeys fetches
MaxScripts == 3

\* the first match of SUPABASE_URL_PATTERN
SupabaseUrl == "https://proj.supabase.co"

\* A JWT-shaped string: the role its payload decodes to ("service_role",
\* "anon" for role anon or iss supabase, "other" for any other payload or a
\* string with no dot, "undecodable" when decoding throws) and n, which tells
\* the strings of a page apart.
Roles == {"service_role", "anon", "other", "undecodable"}

NoKey == [role |-> "none", n |-> 0]

\* fullKey.substring(0, 8) + '...': every JWT-shaped string starts with eyJ
KeyPreview(key) == "eyJhbGci..."

\* match[0].substring(0, 8) + '...' of the first match of a pattern
MatchPreview(name) ==
    CASE name = "Supabase URL" -> "supabase..."
      [] name = "OpenAI API Key" -> "sk-aaaaa..."
      [] name = "Stripe Live Key" -> "sk_live_..."
      [] name = "Stripe Test Key" -> "sk_test_..."
      [] name = "Google API Key" -> "AIzaaaaa..."
      [] name = "NEXT_PUBLIC Secret" -> "NEXT_PUB..."
      [] name = "Supabase JWT" -> "eyJhbGci..."

ApiKeyFinding(type, preview, severity, url, key) ==
    [type |-> type, preview |-> preview, severity |-> severity,
     supabaseUrl |-> url, supabaseKey |-> key]

\* jsContent.match(pattern) of a bundle b
Matches(b, name) ==
    IF name = "Supabase JWT" THEN Len(b.jwts) > 0 ELSE name \in b.matches

\* The loop over fullMatches: st holds findings, the finding under
\* construction and detectedSupabaseKey.
RECURSIVE JwtLoop(_, _, _)
JwtLoop(jwts, i, st) ==
    IF i > Len(jwts) THEN st
    ELSE LET fullKey == jwts[i]
             asAnon == [st EXCEPT !.finding = [@ EXCEPT !.supabaseUrl = SupabaseUrl,
                                                      !.supabaseKey = fullKey],
                                  !.key = fullKey]
         IN JwtLoop(jwts, i + 1,
              CASE fullKey.role = "service_role" ->
                     [st EXCEPT !.findings =
                         Append(@, ApiKeyFinding("Supabase Service Role Key",
                                                 KeyPreview(fullKey), "critical",
                                                 SupabaseUrl, fullKey))]
                [] fullKey.role = "anon" -> asAnon
                [] fullKey.role = "undecodable" -> IF st.key = NoKey THEN asAnon ELSE st
                [] OTHER -> st)

\* The loop over SECRET_PATTERNS for one bundle: st holds findings and
\* detectedSupabaseKey.
RECURSIVE PatternLoop(_, _, _)
PatternLoop(b, j, st) ==
    IF j > Len(SECRET_PATTERNS) THEN st
    ELSE LET pat == SECRET_PATTERNS[j]
             finding == ApiKeyFinding(pat.name, MatchPreview(pat.name), pat.severity, "", NoKey)
         IN IF ~Matches(b, pat.name) THEN PatternLoop(b, j + 1, st)
            ELSE IF pat.name = "Supabase JWT" /\ b.url
            THEN LET after == JwtLoop(b.jwts, 1, [findings |-> st.findings,
                                                  finding |-> finding, key |-> st.key])
                 IN PatternLoop(b, j + 1, [findings |-> Append(after.findings, after.finding),
                                            key |-> after.key])
            ELSE PatternLoop(b, j + 1, [st EXCEPT !.findings = Append(@, finding)])

\* "If we found a supabase URL but no JWT yet": the first anon key of the
\* bundle enriches the first Supabase JWT finding.
LateAnonKey(b, st) ==
    LET anons == {i \in 1..Len(b.jwts) : b.jwts[i].role = "anon"}
        jwtFindings == {i \in 1..Len(st.findings) : st.findings[i].type = "Supabase JWT"}
    IN IF b.url /\ st.key = NoKey /\ anons # {} /\ jwtFindings # {}
       THEN LET k == CHOOSE i \in anons : \A o \in anons : i <= o
                f == CHOOSE i \in jwtFindings : \A o \in jwtFindings : i <= o
            IN [st.findings EXCEPT ![f] = [@ EXCEPT !.supabaseUrl = SupabaseUrl,
                                                    !.supabaseKey = b.jwts[k]]]
       ELSE st.findings

\* one turn of "for (const scriptUrl of toCheck)"
ScanBundle(findings, b) ==
    IF b.threw \/ ~b.ok THEN findings
    ELSE LateAnonKey(b, PatternLoop(b, 1, [findings |-> findings, key |-> NoKey]))

RECURSIVE BundleLoop(_, _, _)
BundleLoop(toCheck, i, findings) ==
    IF i > Len(toCheck) THEN findings
    ELSE BundleLoop(toCheck, i + 1, ScanBundle(findings, toCheck[i]))

\* in: the homepage's answer and, for each same-origin script it names, the
\* answer to the request for that script
detectApiKeys(in) ==
    IF in.threw \/ ~in.ok THEN Fulfilled(<<>>)
    ELSE Fulfilled(BundleLoop(Slice(in.scripts, MaxScripts), 1, <<>>))

\* key.type.toLowerCase().replace(/\s/g, '-')
TypeSlug(type) ==
    CASE type = "Supabase URL" -> "supabase-url"
      [] type = "OpenAI API Key" -> "openai-api-key"
      [] type = "Stripe Live Key" -> "stripe-live-key"
      [] type = "Stripe Test Key" -> "stripe-test-key"
      [] type = "Google API Key" -> "google-api-key"
      [] type = "NEXT_PUBLIC Secret" -> "next_public-secret"
      [] type = "Supabase JWT" -> "supabase-jwt"
      [] type = "Supabase Service Role Key" -> "supabase-service-role-key"

\* runScan's "API key detection" section, up to the search for credentials
KeyFindings(keys) ==
    IF Len(keys) = 0
    THEN << Finding("api-keys", "secrets", "pass", Null) >>
    ELSE [i \in 1..Len(keys) |->
            Finding("secret-" \o TypeSlug(keys[i].type), "secrets", keys[i].severity,
                    keys[i].preview)]

HasCredentials(k) == Truthy(k.supabaseUrl) /\ k.supabaseKey # NoKey

NoCredentials == ApiKeyFinding("none", "", "warning", "", NoKey)

\* keys.find(k => k.supabaseUrl && k.supabaseKey), NoCredentials for undefined
supabaseFinding(keys) ==
    LET with == {i \in 1..Len(keys) : HasCredentials(keys[i])}
    IN IF with = {} THEN NoCredentials
       ELSE keys[CHOOSE i \in with : \A o \in with : i <= o]


----------------------------------------------------------------------------
(* URL Discoverer, as far as runScan looks at it: the list it returns *)

\* threw: every request of discoverUrls threw; found: the URLs its sources
\* named, after the filter, the sort and the cap
UrlSources ==
    { [threw |-> TRUE, found |-> <<>>],
      [threw |-> FALSE, found |-> <<>>],
      [threw |-> FALSE, found |-> <<"https://example.com/about">>] }

discoverUrls(src) == Fulfilled(IF src.threw THEN <<>> ELSE src.found)

UrlFinding(urls) == Finding("url-discovery", "pages", "info", "URLs discovered")

----------------------------------------------------------------------------
(* Data-Exposure Prober *)

\* The answer to the request for the schema catalog: the request throws, or
\* answers non-2xx, or with a body that is no JSON, or with a catalog in which
\* `names` table names survive the filter of internal names.
CatalogResponse(threw, ok, parses, names) ==
    [threw |-> threw, ok |-> ok, parses |-> parses, names |-> names]

CatalogResponsesUpTo(n) ==
    { CatalogResponse(TRUE, FALSE, FALSE, 0), CatalogResponse(FALSE, FALSE, FALSE, 0),
      CatalogResponse(FALSE, TRUE, FALSE, 0) }
    \cup { CatalogResponse(FALSE, TRUE, TRUE, k) : k \in 0..n }

\* most table names checkSupabaseDataExposure keeps of a catalog
MaxCatalog == 12

\* a plausible slip: without a catalog a conventional table name is tried
CatalogNamesGuess(res) ==
    IF res.threw \/ ~res.ok \/ ~res.parses THEN <<1>>
    ELSE [i \in 1..Min(res.names, MaxCatalog) |-> i]

\* tableNames after step 1; the tables are named 1, 2, ...
CatalogNames(res) ==
    IF res.threw \/ ~res.ok \/ ~res.parses THEN <<>>
    ELSE [i \in 1..Min(res.names, MaxCatalog) |-> i]

\* The answer to one table query: the request throws, or answers non-2xx, or
\* with a body that is no JSON, or with JSON that is no array, or with an
\* array of `rows` rows.
TableResponse(threw, ok, parses, array, rows) ==
    [threw |-> threw, ok |-> ok, parses |-> parses, array |-> array, rows |-> rows]

TableResponses ==
    { TableResponse(TRUE, FALSE, FALSE, FALSE, 0), TableResponse(FALSE, FALSE, FALSE, FALSE, 0),
      TableResponse(FALSE, TRUE, FALSE, FALSE, 0), TableResponse(FALSE, TRUE, TRUE, FALSE, 0) }
    \cup { TableResponse(FALSE, TRUE, TRUE, TRUE, n) : n \in 0..MaxRows }

\* sampleRows is kept as the number of rows it holds
ExposedTable(name, rows) == [name |-> name, sampleRows |-> rows, rls |-> FALSE]

\* a plausible slip: the callback has no try/catch, a request that throws
\* leaves its table in neither array
TableCallbackNoCatch(name, res, acc) ==
    IF res.threw THEN acc
    ELSE IF ~res.ok THEN [acc EXCEPT !.blocked = Append(@, name)]
    ELSE IF ~res.parses THEN acc
    ELSE IF res.array /\ res.rows > 0 THEN [acc EXCEPT !.tables = Append(@, ExposedTable(name, res.rows))]
    ELSE IF res.array THEN [acc EXCEPT !.tables = Append(@, ExposedTable(name, 0))]
    ELSE acc

\* The callback of one table query: what it leaves in tables and blockedTables.
TableCallback(name, res, acc) ==
    IF res.threw THEN [acc EXCEPT !.blocked = Append(@, name)]
    ELSE IF ~res.ok THEN [acc EXCEPT !.blocked = Append(@, name)]
    ELSE IF ~res.parses THEN [acc EXCEPT !.blocked = Append(@, name)]
    ELSE IF res.array /\ res.rows > 0 THEN [acc EXCEPT !.tables = Append(@, ExposedTable(name, res.rows))]
    ELSE IF res.array THEN [acc EXCEPT !.tables = Append(@, ExposedTable(name, 0))]
    ELSE acc

\* DataLeaks | null
NullLeaks ==
    [isNull |-> TRUE, keyPreview |-> "", tables |-> <<>>, blockedTables |-> <<>>,
     tablesFound |-> 0, openTables |-> 0]

\* a plausible slip: every accessible table is counted as open
HasRowsOrNone(t) == t.sampleRows >= 0

HasRows(t) == t.sampleRows > 0

\* anonKey.substring(0, 20) + '...'
LeakKeyPreview(key) == "eyJhbGciOiJIUzI1NiIs..."

\* what checkSupabaseDataExposure returns
DxResult ==
    IF Len(tableNames) = 0 THEN NullLeaks
    ELSE [isNull |-> FALSE, keyPreview |-> LeakKeyPreview(dxKey), tables |-> tables,
          blockedTables |-> blockedTables, tablesFound |-> Len(tableNames),
          openTables |-> CountWhere(tables, HasRows)]

\* runScan's finding for the outcome of the Data-Exposure probe
LeakFindings(leaks) ==
    IF ~leaks.isNull /\ (leaks.openTables > 0 \/ Len(leaks.tables) > 0)
    THEN << Finding("supabase-data-exposure", "secrets", "critical", "accessible tables") >>
    ELSE <<>>

----------------------------------------------------------------------------
(* runScan: score, order, report *)

IsCritical(c) == c.status = "critical"

IsWarning(c) == c.status = "warning"

IsPass(c) == c.status = "pass"

IsInfo(c) == c.status = "info"

\* a plausible slip: the score is not clamped
ScoreUnclamped(criticalCount, warningCount) == 100 - criticalCount * 20 - warningCount * 5

Score(criticalCount, warningCount) ==
    Max(0, Min(100, 100 - criticalCount * 20 - warningCount * 5))

\* a plausible slip: info findings are counted as passed
PassCountWithInfo(cs) == CountWhere(cs, IsPass) + CountWhere(cs, IsInfo)

PassCount(cs) == CountWhere(cs, IsPass)

\* const statusOrder = { critical: 0, warning: 1, pass: 2, info: 3 }
statusOrder(status) ==
    CASE status = "critical" -> 0
      [] status = "warning" -> 1
      [] status = "pass" -> 2
      [] status = "info" -> 3

\* a plausible slip: the comparison is reversed for pass and warning
SortChecksPassFirst(cs) ==
    SelectSeq(cs, IsCritical) \o SelectSeq(cs, IsPass)
        \o SelectSeq(cs, IsWarning) \o SelectSeq(cs, IsInfo)

\* checks.sort by statusOrder: the sort is stable
SortChecks(cs) ==
    SelectSeq(cs, IsCritical) \o SelectSeq(cs, IsWarning)
        \o SelectSeq(cs, IsPass) \o SelectSeq(cs, IsInfo)

NoReport == [isNull |-> TRUE]

\* the value runScan returns, from the complete checks array
Report(url, cs, urls, leaks) ==
    [isNull |-> FALSE, url |-> url,
     score |-> Score(CountWhere(cs, IsCritical), CountWhere(cs, IsWarning)),
     summary |-> [critical |-> CountWhere(cs, IsCritical),
                  warnings |-> CountWhere(cs, IsWarning),
                  passed |-> PassCount(cs)],
     discoveredUrls |-> urls, checks |-> SortChecks(cs), dataLeaks |-> leaks]


----------------------------------------------------------------------------
(* The scan of one request: POST, the global timer, runScan *)

ProbeNames == {"urls", "paths", "headers", "keys", "cors"}

\* what runScan uses for a promise that did not fulfil
Default(p) ==
    CASE p = "urls" -> <<>>
      [] p = "paths" -> <<>>
      [] p = "headers" -> NoHeaders
      [] p = "keys" -> <<>>
      [] p = "cors" -> CorsClosed

Pending(p) == [status |-> "pending", value |-> Default(p)]

\* x.status === 'fulfilled' ? x.value : <default>
SlotValue(p) == IF slots[p].status = "fulfilled" THEN slots[p].value ELSE Default(p)

\* The paths whose requests the scan model follows; the requests for the other
\* paths of the catalog are taken to be answered 404, which leaves no trace.
PathPool == {"/.env", "/wp-admin"}

Body(marks, len) == [marks |-> marks, len |-> len]

PageResponse(status, ct, body) == [threw |-> FALSE, status |-> status, ct |-> ct, body |-> body]

\* The answers a path of the pool gets in the scan model: the request throws;
\* 404; the SPA's index page; a file of KEY=value lines; a WordPress login
\* page; a JSON document.
ScanPathResponses ==
    { FailedResponse,
      PageResponse(404, "text/html; charset=utf-8", Body({}, "mid")),
      PageResponse(200, "text/html; charset=utf-8", Body({"idroot", "scripttag"}, "mid")),
      PageResponse(200, "", Body({"envline"}, "mid")),
      PageResponse(200, "text/html; charset=utf-8", Body({"wpmark"}, "mid")),
      PageResponse(200, "application/json", Body({"json"}, "mid")) }

BundleResponse(url, matches, jwts) ==
    [threw |-> FALSE, ok |-> TRUE, url |-> url, matches |-> matches, jwts |-> jwts]

HomePage(threw, ok, scripts) == [threw |-> threw, ok |-> ok, scripts |-> scripts]

Token(role, n) == [role |-> role, n |-> n]

\* The pages the Secret Scanner meets in the scan model: the homepage request
\* throws; a homepage without scripts; one bundle with an OpenAI key; one
\* bundle with a backend URL and an anon JWT; one with a backend URL, a
\* service_role JWT and an anon JWT; two bundles with an OpenAI key each.
ScanKeyInputs ==
    { HomePage(TRUE, FALSE, <<>>),
      HomePage(FALSE, TRUE, <<>>),
      HomePage(FALSE, TRUE, << BundleResponse(FALSE, {"OpenAI API Key"}, <<>>) >>),
      HomePage(FALSE, TRUE, << BundleResponse(TRUE, {"Supabase URL"}, <<Token("anon", 1)>>) >>),
      HomePage(FALSE, TRUE, << BundleResponse(TRUE, {"Supabase URL"},
                                  <<Token("service_role", 1), Token("anon", 2)>>) >>),
      HomePage(FALSE, TRUE, << BundleResponse(FALSE, {"OpenAI API Key"}, <<>>),
                               BundleResponse(FALSE, {"OpenAI API Key"}, <<>>) >>) }

\* most tables of a backend's catalog in the scan model
MaxScanTables == 1

ScanStarted == scan # "idle"

\* The answer POST gives when runScan resolves first.
ScanResponse(rep) == [status |-> 200, report |-> rep]

\* a plausible slip: on the deadline the checks gathered so far are returned
TimeoutResponsePartial ==
    [status |-> 200, report |-> Report(baseUrl, checks, <<>>, NullLeaks)]

\* The answer POST gives when the deadline rejects first.
TimeoutResponse == ErrorResponse(500, "Scan timeout")

\* POST up to "await Promise.race": the request is refused, or the timer is
\* armed and runScan runs up to its "await Promise.allSettled", which starts
\* the five probes.
PostStart ==
    /\ post = "start"
    /\ IF InputError(input) # NoResponse
       THEN /\ response' = InputError(input)
            /\ post' = "responded"
            /\ UNCHANGED <<timer, scan, baseUrl, checks, slots, pathPending>>
       ELSE /\ baseUrl' = normalizeUrl(input.url)
            /\ timer' = "armed"
            /\ scan' = "probes"
            /\ checks' = << SslFinding(normalizeUrl(input.url)) >>
            /\ slots' = [p \in ProbeNames |-> Pending(p)]
            /\ pathPending' = PathPool
            /\ post' = "awaiting"
            /\ UNCHANGED response
    /\ UNCHANGED <<input, race, probeFailed, exposed, dataLeaks, report>>
    /\ UNCHANGED <<dxVars, vVars, kVars, tVars, uVars, sVars, unitVars>>

\* The deadline's setTimeout callback. Promise.race settles with whichever
\* promise settles first, and POST's continuation runs before any other event.
TimerFire ==
    /\ timer = "armed"
    /\ timer' = "fired"
    /\ IF post = "awaiting"
       THEN /\ response' = TimeoutResponse
            /\ post' = "responded"
            /\ race' = "timeout"
       ELSE UNCHANGED <<response, post, race>>
    /\ UNCHANGED <<input, scan, baseUrl, checks, slots, probeFailed, pathPending,
                   exposed, dataLeaks, report>>
    /\ UNCHANGED <<dxVars, vVars, kVars, tVars, uVars, sVars, unitVars>>

Settle(p, slot, failed) ==
    /\ scan = "probes"
    /\ slots[p].status = "pending"
    /\ slots' = [slots EXCEPT ![p] = slot]
    /\ probeFailed' = IF failed THEN probeFailed \cup {p} ELSE probeFailed
    /\ UNCHANGED <<input, post, response, timer, race, scan, baseUrl, checks,
                   dataLeaks, report>>
    /\ UNCHANGED <<dxVars, vVars, kVars, tVars, uVars, sVars, unitVars>>

ProbeUrls ==
    /\ \E src \in UrlSources : Settle("urls", discoverUrls(src), src.threw)
    /\ UNCHANGED <<pathPending, exposed>>

ProbeHeaders ==
    /\ \E res \in HomeResponses : Settle("headers", checkSecurityHeaders(res), res.threw)
    /\ UNCHANGED <<pathPending, exposed>>

ProbeKeys ==
    /\ \E in \in ScanKeyInputs : Settle("keys", detectApiKeys(in), in.threw)
    /\ UNCHANGED <<pathPending, exposed>>

\* the answers of the two endpoints checkCors asks, in its order
CorsAnswers == [1..2 -> CorsResponses]

ProbeCors ==
    /\ \E resps \in CorsAnswers :
          Settle("cors", checkCors(resps), \A i \in 1..2 : resps[i].threw)
    /\ UNCHANGED <<pathPending, exposed>>

\* one callback of checkSensitivePaths' map runs to its end
PathDone ==
    /\ scan = "probes"
    /\ \E path \in pathPending, res \in ScanPathResponses :
          /\ exposed' = exposed \o PathCallback(path, res)
          /\ pathPending' = pathPending \ {path}
          /\ probeFailed' = IF res.threw THEN probeFailed \cup {path} ELSE probeFailed
    /\ UNCHANGED <<input, post, response, timer, race, scan, baseUrl, checks, slots,
                   dataLeaks, report>>
    /\ UNCHANGED <<dxVars, vVars, kVars, tVars, uVars, sVars, unitVars>>

\* "await Promise.allSettled(checks); return exposed"
PathsSettle ==
    /\ pathPending = {}
    /\ scan = "probes"
    /\ slots["paths"].status = "pending"
    /\ slots' = [slots EXCEPT !["paths"] = Fulfilled(exposed)]
    /\ probeFailed' = (probeFailed \ PathPool)
                         \cup (IF PathPool \subseteq probeFailed THEN {"paths"} ELSE {})
    /\ UNCHANGED <<input, post, response, timer, race, scan, baseUrl, checks,
                   pathPending, exposed, dataLeaks, report>>
    /\ UNCHANGED <<dxVars, vVars, kVars, tVars, uVars, sVars, unitVars>>

\* runScan from the resolution of Promise.allSettled to the CORS section,
\* without the Data-Exposure probe
MergedChecks ==
    checks \o << UrlFinding(SlotValue("urls")) >>
           \o SensitivePathFindings(SlotValue("paths"))
           \o HeaderFindings(SlotValue("headers"))
           \o KeyFindings(SlotValue("keys"))

\* runScan from "if (dataLeaks && ...)" to its return; POST's continuation
\* answers with the report if the deadline has not fired.
Finish(merged, leaks) ==
    LET cs == merged \o LeakFindings(leaks) \o << CorsFinding(SlotValue("cors")) >>
        rep == Report(baseUrl, cs, SlotValue("urls"), leaks)
    IN /\ dataLeaks' = leaks
       /\ checks' = rep.checks
       /\ report' = rep
       /\ scan' = "done"
       /\ IF post = "awaiting"
          THEN /\ response' = ScanResponse(rep)
               /\ post' = "responded"
               /\ race' = "scan"
          ELSE UNCHANGED <<response, post, race>>

\* a plausible slip: the probe runs whenever a secret was found
WantsDataExposureAnyKey(keys) == Len(keys) > 0

\* "if (supabaseFinding?.supabaseUrl && supabaseFinding?.supabaseKey)"
WantsDataExposure(keys) == HasCredentials(supabaseFinding(keys))

\* runScan after Promise.allSettled: the findings of the five probes, then
\* either the call of checkSupabaseDataExposure, which sends the request for
\* the catalog, or the rest of runScan.
ScanMerge ==
    /\ scan = "probes"
    /\ \A p \in ProbeNames : slots[p].status # "pending"
    /\ IF WantsDataExposure(SlotValue("keys"))
       THEN /\ checks' = MergedChecks
            /\ scan' = "dx"
            /\ dx' = "catalog"
            /\ dxKey' = supabaseFinding(SlotValue("keys")).supabaseKey
            /\ backendReqs' = backendReqs + 1
            /\ UNCHANGED <<response, post, race, dataLeaks, report>>
       ELSE /\ Finish(MergedChecks, NullLeaks)
            /\ UNCHANGED <<dx, dxKey, backendReqs>>
    /\ UNCHANGED <<input, timer, baseUrl, slots, probeFailed, pathPending, exposed>>
    /\ UNCHANGED <<tableNames, tablePending, tables, blockedTables, dxSeen>>
    /\ UNCHANGED <<vVars, kVars, tVars, uVars, sVars, unitVars>>

\* (history) the catalog request failed in one of the ways the code treats as
\* "no catalog": it threw (network error, abort at the timeout), answered
\* non-2xx, its body was no JSON, or no table name survived the filter
CatalogFailed(res) == res.threw \/ ~res.ok \/ ~res.parses \/ res.names = 0

\* (history) a table query failed: it threw, answered non-2xx or its body was
\* no JSON
QueryFailed(res) == res.threw \/ ~res.ok \/ ~res.parses

\* (history) the number of tables of the catalog: the names that survive the
\* filter of internal names, capped
Cataloged(res) == Min(res.names, MaxCatalog)

\* (history) a table query was answered 2xx with a JSON array of at least
\* one row
AnsweredRows(res) == ~QueryFailed(res) /\ res.array /\ res.rows > 0

NothingSeen == [catalog |-> "none", listed |-> 0, failed |-> {}, arrays |-> {}, rows |-> {}]

\* checkSupabaseDataExposure, step 1: the catalog's answer; without a table
\* name it returns null, else it sends one query per table.
DxCatalogOf(responses) ==
    /\ dx = "catalog"
    /\ \E res \in responses :
          /\ tableNames' = CatalogNames(res)
          /\ tablePending' = Range(CatalogNames(res))
          /\ backendReqs' = backendReqs + Len(CatalogNames(res))
          /\ dx' = IF Len(CatalogNames(res)) = 0 THEN "returned" ELSE "tables"
          /\ dxSeen' = [dxSeen EXCEPT !.catalog = IF CatalogFailed(res) THEN "failed" ELSE "listed",
                                      !.listed = IF CatalogFailed(res) THEN 0 ELSE Cataloged(res)]
    /\ UNCHANGED <<dxKey, tables, blockedTables>>
    /\ UNCHANGED <<scanVars, vVars, kVars, tVars, uVars, sVars, unitVars>>

\* the catalog's answers in the scan model
ScanCatalogResponses == CatalogResponsesUpTo(MaxScanTables)

DxCatalog == DxCatalogOf(ScanCatalogResponses)

\* one callback of tableNames.map runs to its end
DxTable ==
    /\ dx = "tables"
    /\ \E name \in tablePending, res \in TableResponses :
          LET acc == TableCallback(name, res, [tables |-> tables, blocked |-> blockedTables])
          IN /\ tables' = acc.tables
             /\ blockedTables' = acc.blocked
             /\ tablePending' = tablePending \ {name}
             /\ dxSeen' = [dxSeen EXCEPT !.failed = IF QueryFailed(res) THEN @ \cup {name} ELSE @,
                                         !.arrays = IF QueryFailed(res) \/ ~res.array THEN @ ELSE @ \cup {name},
                                         !.rows = IF AnsweredRows(res) THEN @ \cup {name} ELSE @]
    /\ UNCHANGED <<dx, dxKey, tableNames, backendReqs>>
    /\ UNCHANGED <<scanVars, vVars, kVars, tVars, uVars, sVars, unitVars>>

\* "await Promise.allSettled(tableChecks)" resolves and the result is returned
DxReturn ==
    /\ dx = "tables"
    /\ tablePending = {}
    /\ dx' = "returned"
    /\ UNCHANGED <<dxKey, tableNames, tablePending, tables, blockedTables, backendReqs, dxSeen>>
    /\ UNCHANGED <<scanVars, vVars, kVars, tVars, uVars, sVars, unitVars>>

\* runScan resumes after "dataLeaks = await checkSupabaseDataExposure(...)"
ScanFinish ==
    /\ scan = "dx"
    /\ dx = "returned"
    /\ Finish(checks, DxResult)
    /\ UNCHANGED <<input, timer, baseUrl, slots, probeFailed, pathPending, exposed>>
    /\ UNCHANGED <<dxVars, vVars, kVars, tVars, uVars, sVars, unitVars>>

\* the chains of requests SpecTimed follows: the five probes and the
\* Data-Exposure probe
Chains == ProbeNames \cup {"dx"}

\* a chain before its first request
NotStarted == [step |-> 0, phase |-> "idle", since |-> 0, sent |-> 0, threw |-> 0]

NoTarget == [valid |-> FALSE, beh |-> [c \in Chains |-> "instant"], bundles |-> 0, creds |-> FALSE]

tIdle ==
    /\ now = 0 /\ tTarget = NoTarget /\ tReq = [c \in Chains |-> NotStarted]
    /\ tTimer = "unset" /\ tAnswers = <<>> /\ tScan = "idle" /\ tLate = FALSE

uIdle ==
    /\ uInput = <<>> /\ uStep = "input" /\ uResult = <<>>

sIdle ==
    /\ sMatch = [name |-> "none", text |-> <<>>] /\ sStep = "matched"
    /\ sCheck = Finding("api-keys", "secrets", "pass", <<>>) /\ sKeyPreview = <<>>

rIdle ==
    /\ rCol = <<>> /\ rValue = [type |-> "undefined", str |-> <<>>]
    /\ rStep = "called" /\ rOut = <<>>

fIdle ==
    /\ fNow = 0 /\ fTimeout = 0 /\ fAnswer = [at |-> 0, kind |-> "none", body |-> "none"]
    /\ fPromise = "none" /\ fTimer = "unset" /\ fRequest = "none" /\ fBody = "none"
    /\ fSettled = 0 /\ fLate = FALSE

oIdle == oTarget = <<>> /\ oCorsSent = 0

NoEntry == [url |-> [scheme |-> "", host |-> 0], domain |-> 0, scannedAt |-> 0]

hIdle ==
    /\ hStore = <<>> /\ hFresh = 0 /\ hStamp = 0 /\ hEdits = 0 /\ hLastSaved = NoEntry

unitIdle == rIdle /\ fIdle /\ oIdle /\ hIdle

vIdle ==
    /\ vPath = "/.env" /\ vResp = FailedResponse /\ vStep = {}
    /\ vExposed = <<>> /\ vExposedHead = <<>> /\ vChecks = <<>>

kIdle ==
    /\ kInput = HomePage(TRUE, FALSE, <<>>) /\ kStep = "input"
    /\ kFindings = <<>> /\ kCred = NoCredentials

dxIdle ==
    /\ dx = "idle" /\ dxKey = NoKey /\ tableNames = <<>> /\ tablePending = {}
    /\ tables = <<>> /\ blockedTables = <<>> /\ backendReqs = 0
    /\ dxSeen = NothingSeen

scanIdle ==
    /\ post = "start" /\ response = NoResponse /\ timer = "unset" /\ race = "none"
    /\ scan = "idle" /\ baseUrl = NoUrl /\ checks = <<>>
    /\ slots = [p \in ProbeNames |-> Pending(p)]
    /\ probeFailed = {} /\ pathPending = {} /\ exposed = <<>>
    /\ dataLeaks = NullLeaks /\ report = NoReport

Init ==
    /\ input \in Inputs
    /\ scanIdle /\ dxIdle /\ vIdle /\ kIdle /\ tIdle /\ uIdle /\ sIdle /\ unitIdle

Next ==
    \/ PostStart
    \/ TimerFire
    \/ ProbeUrls
    \/ ProbeHeaders
    \/ ProbeKeys
    \/ ProbeCors
    \/ PathDone
    \/ PathsSettle
    \/ ScanMerge
    \/ DxCatalog
    \/ DxTable
    \/ DxReturn
    \/ ScanFinish

Spec == Init /\ [][Next]_vars


----------------------------------------------------------------------------
(* SpecValidate: one response to the request for one path of the catalog, *)
(* handled by both versions of checkSensitivePaths                         *)

InitValidate ==
    /\ vPath \in Range(SENSITIVE_PATHS)
    /\ vResp \in PathResponses
    /\ vStep = {} /\ vExposed = <<>> /\ vExposedHead = <<>> /\ vChecks = <<>>
    /\ input = [json |-> FALSE, kind |-> "none", url |-> NoUrl]
    /\ scanIdle /\ dxIdle /\ kIdle /\ tIdle /\ uIdle /\ sIdle /\ unitIdle

\* part_002: the callback for vPath, then runScan's section on its result
ValidateGet ==
    /\ "get" \notin vStep
    /\ vStep' = vStep \cup {"get"}
    /\ vExposed' = PathCallback(vPath, vResp)
    /\ vChecks' = SensitivePathFindings(PathCallback(vPath, vResp))
    /\ UNCHANGED <<vPath, vResp, vExposedHead>>
    /\ UNCHANGED <<scanVars, dxVars, kVars, tVars, uVars, sVars, unitVars>>

\* route.ts: the callback for vPath
ValidateHead ==
    /\ "head" \notin vStep
    /\ vStep' = vStep \cup {"head"}
    /\ vExposedHead' = PathCallbackHead(vPath, vResp)
    /\ UNCHANGED <<vPath, vResp, vExposed, vChecks>>
    /\ UNCHANGED <<scanVars, dxVars, kVars, tVars, uVars, sVars, unitVars>>

NextValidate ==
    \/ ValidateGet
    \/ ValidateHead

SpecValidate == InitValidate /\ [][NextValidate]_vars

----------------------------------------------------------------------------
(* SpecKeys: detectApiKeys on a homepage and its bundles, then runScan's   *)
(* search for the credentials of the Data-Exposure probe                   *)

\* most same-origin scripts the homepage names (SpecKeys)
MaxBundles == 2

\* What a bundle is, apart from its JWT-shaped strings: its request throws;
\* it answers non-2xx; or it holds any of a backend URL, the text
\* SUPABASE_URL without a URL, an OpenAI key.
BundleKinds ==
    { [threw |-> TRUE, ok |-> FALSE, url |-> FALSE, matches |-> {}],
      [threw |-> FALSE, ok |-> FALSE, url |-> FALSE, matches |-> {}],
      [threw |-> FALSE, ok |-> TRUE, url |-> FALSE, matches |-> {}],
      [threw |-> FALSE, ok |-> TRUE, url |-> FALSE, matches |-> {"OpenAI API Key"}],
      [threw |-> FALSE, ok |-> TRUE, url |-> FALSE, matches |-> {"Supabase URL"}],
      [threw |-> FALSE, ok |-> TRUE, url |-> TRUE, matches |-> {"Supabase URL"}],
      [threw |-> FALSE, ok |-> TRUE, url |-> TRUE, matches |-> {"Supabase URL", "OpenAI API Key"}] }

\* the JWT-shaped strings of the page, in the order the bundles hold them
TokenSeqs == UNION { [1..k -> Roles] : k \in 0..MaxJwts }

\* where[i]: the bundle that holds the i-th string; bundles hold them in order
Placements(k, n) ==
    { where \in [1..k -> 1..n] : \A i, j \in 1..k : i <= j => where[i] <= where[j] }

RECURSIVE TokensOf(_, _, _, _)
TokensOf(roles, where, b, i) ==
    IF i > Len(roles) THEN <<>>
    ELSE (IF where[i] = b THEN <<Token(roles[i], i)>> ELSE <<>>)
            \o TokensOf(roles, where, b, i + 1)

Scripts(kinds, roles, where) ==
    [b \in 1..Len(kinds) |->
        [threw |-> kinds[b].threw, ok |-> kinds[b].ok, url |-> kinds[b].url,
         matches |-> kinds[b].matches, jwts |-> TokensOf(roles, where, b, 1)]]

\* a homepage that answers 2xx and names the bundles described
KeyPage(kinds, roles, where) == HomePage(FALSE, TRUE, Scripts(kinds, roles, where))

\* homepages without scripts: the request throws, answers non-2xx, or 2xx
BarePages ==
    { HomePage(TRUE, FALSE, <<>>), HomePage(FALSE, FALSE, <<>>), HomePage(FALSE, TRUE, <<>>) }

InitKeys ==
    /\ \/ kInput \in BarePages
       \/ \E n \in 1..MaxBundles : \E roles \in TokenSeqs :
             \E where \in Placements(Len(roles), n) : \E kinds \in [1..n -> BundleKinds] :
                kInput = KeyPage(kinds, roles, where)
    /\ kStep = "input" /\ kFindings = <<>> /\ kCred = NoCredentials
    /\ input = [json |-> FALSE, kind |-> "none", url |-> NoUrl]
    /\ scanIdle /\ dxIdle /\ vIdle /\ tIdle /\ uIdle /\ sIdle /\ unitIdle

KeysDetect ==
    /\ kStep = "input"
    /\ kStep' = "detected"
    /\ kFindings' = detectApiKeys(kInput).value
    /\ UNCHANGED <<kInput, kCred>>
    /\ UNCHANGED <<scanVars, dxVars, vVars, tVars, uVars, sVars, unitVars>>

KeysFind ==
    /\ kStep = "detected"
    /\ kStep' = "found"
    /\ kCred' = supabaseFinding(kFindings)
    /\ UNCHANGED <<kInput, kFindings>>
    /\ UNCHANGED <<scanVars, dxVars, vVars, tVars, uVars, sVars, unitVars>>

NextKeys ==
    \/ KeysDetect
    \/ KeysFind

SpecKeys == InitKeys /\ [][NextKeys]_vars

----------------------------------------------------------------------------
(* SpecData: checkSupabaseDataExposure from its call to its return *)

InitData ==
    /\ dx = "catalog" /\ dxKey = Token("anon", 1) /\ backendReqs = 1
    /\ tableNames = <<>> /\ tablePending = {} /\ tables = <<>> /\ blockedTables = <<>>
    /\ dxSeen = NothingSeen
    /\ input = [json |-> FALSE, kind |-> "none", url |-> NoUrl]
    /\ scanIdle /\ vIdle /\ kIdle /\ tIdle /\ uIdle /\ sIdle /\ unitIdle

CatalogResponses == CatalogResponsesUpTo(MaxTables)

DxCatalogAll == DxCatalogOf(CatalogResponses)

NextData ==
    \/ DxCatalogAll
    \/ DxTable
    \/ DxReturn

SpecData == InitData /\ [][NextData]_vars

----------------------------------------------------------------------------
(* SpecTimed: one POST request against the clock.  Time is counted in      *)
(* seconds and advances from one event to the next: an answer of the       *)
(* target, the abort of a request at its per-call timeout, the deadline.   *)

\* the per-call timeouts handed to fetchWithTimeout, and the deadline
SourceTimeout == 5
BundleTimeout == 6
PathTimeout == 5
HomeTimeout == 8
CorsTimeout == 5
CatalogTimeout == 8
TableTimeout == 6
TIMEOUT == 25

\* jsBundleUrls.slice(0, 4) of discoverUrls
MaxRouteBundles == 4

\* most same-origin script tags on the target's homepage
MaxPageBundles == 5

\* How the target treats the requests of one chain: it answers at once; it
\* answers just within the request's timeout; it never answers; it sends the
\* response headers at once and the body never ends.
Behaviours == {"instant", "slow", "never", "bodyhang"}

\* checkSecurityHeaders and checkCors read no body
ReadsBody(c) == c \notin {"headers", "cors"}

TargetBehaviours ==
    {b \in [Chains -> Behaviours] : \A c \in Chains : ReadsBody(c) \/ b[c] # "bodyhang"}

\* the request a chain makes at a step: its timeout
RequestTimeout(c, step) ==
    CASE c = "urls" -> IF step <= 3 THEN SourceTimeout ELSE BundleTimeout
      [] c = "paths" -> PathTimeout
      [] c = "headers" -> HomeTimeout
      [] c = "keys" -> IF step = 1 THEN HomeTimeout ELSE BundleTimeout
      [] c = "cors" -> CorsTimeout
      [] c = "dx" -> IF step = 1 THEN CatalogTimeout ELSE TableTimeout

\* The step that follows a request of a chain, 0 when the chain ends.  ok: the
\* request was answered (the target of the model answers 200 when it answers).
\*   urls     sitemap, robots.txt, homepage, then the bundles the homepage
\*            named, one after the other, each in its own try/catch
\*   paths    the requests of the catalog, all at once
\*   keys     homepage (a throw ends the probe), then up to three bundles
\*   cors     two endpoints, one after the other (none answers with '*')
\*   dx       the catalog (a throw ends the probe), then the tables at once
FollowingStep(c, step, ok, bundles) ==
    CASE c = "urls" ->
            IF step < 3 THEN step + 1
            ELSE IF step = 3 THEN (IF ok /\ bundles > 0 THEN 4 ELSE 0)
            ELSE IF step < 3 + Min(bundles, MaxRouteBundles) THEN step + 1 ELSE 0
      [] c = "keys" ->
            IF step = 1 THEN (IF ok /\ bundles > 0 THEN 2 ELSE 0)
            ELSE IF step < 1 + Min(bundles, MaxScripts) THEN step + 1 ELSE 0
      [] c = "cors" -> IF step = 1 THEN 2 ELSE 0
      [] c = "dx" -> IF step = 1 /\ ok THEN 2 ELSE 0
      [] OTHER -> 0

\* seconds from the start of a request to the settling of fetchWithTimeout's
\* promise: the answer's headers, or the abort
FetchDelay(beh, timeout) ==
    CASE beh = "slow" -> timeout - 1
      [] beh = "never" -> timeout
      [] OTHER -> 0

\* the chain's first request, sent at time t
Started(t) == [step |-> 1, phase |-> "fetch", since |-> t, sent |-> 1, threw |-> 0]

\* One request of a chain settles at time t: the chain waits for ever for a
\* body that never ends (clearTimeout has run when the body is read), or it
\* ends, or its next request is sent.
SettleRequest(c, r, t, target) ==
    LET beh == target.beh[c]
        ok == beh # "never"
        nxt == FollowingStep(c, r.step, ok, target.bundles)
        threw == r.threw + (IF ok THEN 0 ELSE 1)
    IN IF beh = "bodyhang" /\ ReadsBody(c) THEN [r EXCEPT !.phase = "body"]
       ELSE IF nxt = 0 THEN [r EXCEPT !.phase = "done", !.threw = threw]
       ELSE [step |-> nxt, phase |-> "fetch", since |-> t, sent |-> r.sent + 1, threw |-> threw]

\* A chain from the settling of its pending request, at time t, up to its next
\* await that does not resolve at t.
RECURSIVE RunChain(_, _, _, _)
RunChain(c, r0, t, target) ==
    CHOOSE out \in
        { IF r.phase # "fetch"
                \/ r.since + FetchDelay(target.beh[c], RequestTimeout(c, r.step)) # t
          THEN r
          ELSE RunChain(c, SettleRequest(c, r, t, target), t, target) : r \in {r0} } : TRUE

\* when the pending request of a chain settles
DueAt(c) == tReq[c].since + FetchDelay(tTarget.beh[c], RequestTimeout(c, tReq[c].step))

InFetch == {c \in Chains : tReq[c].phase = "fetch"}

\* the requests not yet settled: awaiting the headers or the body
InFlight == {c \in Chains : tReq[c].phase \in {"fetch", "body"}}

\* a plausible slip: POST answers whenever one of the two promises settles
RaceAnswerEach(answers, r) == Append(answers, r)

\* "await Promise.race([scanPromise, timeoutPromise])": the first promise to
\* settle decides POST's one answer; the later one is ignored.
RaceAnswer(answers, r) == IF answers = <<>> THEN <<r>> ELSE answers

PageBundles == {0, MaxPageBundles}

\* The requests POST gets: a malformed one, or one that names a target, which
\* treats each chain in one of the ways above, has some script tags on its
\* homepage and may hold a backend credential in its bundles.
Targets ==
    { NoTarget }
    \cup { [valid |-> TRUE, beh |-> b, bundles |-> n, creds |-> creds] :
              b \in {t \in TargetBehaviours : t["dx"] = "instant"}, n \in PageBundles,
              creds \in {FALSE} }
    \cup { [valid |-> TRUE, beh |-> b, bundles |-> n, creds |-> creds] :
              b \in TargetBehaviours, n \in PageBundles, creds \in {TRUE} }

\* POST up to "await Promise.race"
TimedPost ==
    /\ tScan = "idle" /\ tAnswers = <<>>
    /\ \E target \in Targets :
          /\ tTarget' = target
          /\ IF ~target.valid
             THEN /\ tAnswers' = <<"refused">>
                  /\ UNCHANGED <<tReq, tTimer, tScan>>
             ELSE /\ tTimer' = "armed"
                  /\ tScan' = "probes"
                  /\ tReq' = [c \in Chains |-> IF c \in ProbeNames THEN Started(now) ELSE NotStarted]
                  /\ UNCHANGED tAnswers
    /\ UNCHANGED <<now, tLate>>
    /\ UNCHANGED <<scanVars, dxVars, vVars, kVars, uVars, sVars, unitVars>>

\* the pending request of chain c settles and the chain runs on
TimedSettle(c) ==
    /\ c \in InFetch
    /\ DueAt(c) = now
    /\ LET r == RunChain(c, tReq[c], now, tTarget)
       IN /\ tReq' = [tReq EXCEPT ![c] = r]
          /\ tLate' = (tLate \/ (r.sent > tReq[c].sent /\ tAnswers = <<"timeout">>))
    /\ UNCHANGED <<now, tTarget, tTimer, tAnswers, tScan>>
    /\ UNCHANGED <<scanVars, dxVars, vVars, kVars, uVars, sVars, unitVars>>

\* detectApiKeys read a bundle that holds the backend's URL and anon key
CredentialsRead ==
    /\ tTarget.creds /\ tTarget.bundles > 0
    /\ tTarget.beh["keys"] \in {"instant", "slow"}

\* runScan after "await Promise.allSettled": the Data-Exposure probe is
\* called, or runScan returns
TimedMerge ==
    /\ tScan = "probes"
    /\ \A p \in ProbeNames : tReq[p].phase = "done"
    /\ IF CredentialsRead
       THEN /\ tScan' = "dx"
            /\ tReq' = [tReq EXCEPT !["dx"] = Started(now)]
            /\ tLate' = (tLate \/ tAnswers = <<"timeout">>)
            /\ UNCHANGED tAnswers
       ELSE /\ tScan' = "done"
            /\ tAnswers' = RaceAnswer(tAnswers, "report")
            /\ UNCHANGED <<tReq, tLate>>
    /\ UNCHANGED <<now, tTarget, tTimer>>
    /\ UNCHANGED <<scanVars, dxVars, vVars, kVars, uVars, sVars, unitVars>>

\* runScan after "await checkSupabaseDataExposure(...)"
TimedFinish ==
    /\ tScan = "dx"
    /\ tReq["dx"].phase = "done"
    /\ tScan' = "done"
    /\ tAnswers' = RaceAnswer(tAnswers, "report")
    /\ UNCHANGED <<now, tTarget, tReq, tTimer, tLate>>
    /\ UNCHANGED <<scanVars, dxVars, vVars, kVars, uVars, sVars, unitVars>>

\* the callback of POST's setTimeout rejects timeoutPromise; nothing else
TimedDeadline ==
    /\ tTimer = "armed"
    /\ now = TIMEOUT
    /\ tTimer' = "fired"
    /\ tAnswers' = RaceAnswer(tAnswers, "timeout")
    /\ UNCHANGED <<now, tTarget, tReq, tScan, tLate>>
    /\ UNCHANGED <<scanVars, dxVars, vVars, kVars, uVars, sVars, unitVars>>

\* the times at which something is due
EventTimes == {DueAt(c) : c \in InFetch} \cup (IF tTimer = "armed" THEN {TIMEOUT} ELSE {})

\* time passes up to the next event, once everything due now has run
Tick ==
    /\ tScan # "idle"
    /\ ~(tScan = "probes" /\ \A p \in ProbeNames : tReq[p].phase = "done")
    /\ ~(tScan = "dx" /\ tReq["dx"].phase = "done")
    /\ EventTimes # {}
    /\ \A t \in EventTimes : t > now
    /\ now' = CHOOSE t \in EventTimes : \A o \in EventTimes : t <= o
    /\ UNCHANGED <<tTarget, tReq, tTimer, tAnswers, tScan, tLate>>
    /\ UNCHANGED <<scanVars, dxVars, vVars, kVars, uVars, sVars, unitVars>>

InitTimed ==
    /\ input = [json |-> FALSE, kind |-> "none", url |-> NoUrl]
    /\ scanIdle /\ dxIdle /\ vIdle /\ kIdle /\ tIdle /\ uIdle /\ sIdle /\ unitIdle

NextTimed ==
    \/ TimedPost
    \/ \E c \in Chains : TimedSettle(c)
    \/ TimedMerge
    \/ TimedFinish
    \/ TimedDeadline
    \/ Tick

SpecTimed == InitTimed /\ [][NextTimed]_vars

\* The event loop runs every callback that is ready and the clock goes on.
SpecTimedFair == SpecTimed /\ WF_vars(NextTimed)

----------------------------------------------------------------------------
(* SpecPreview: what the report keeps of a text that a secret pattern      *)
(* matched.  A string is the sequence of its characters.                   *)

\* most characters by which a match is longer than its pattern's shortest
MaxExtraChars == 5

\* the characters kept of a match, and of the key handed to the
\* Data-Exposure probe
PreviewChars == 8
KeyPreviewChars == 20

Chars(n, ch) == [i \in 1..n |-> ch]

Dots == <<".", ".", ".">>

\* a plausible slip: the text is kept whole
PreviewWhole(str, n) == str \o Dots

\* str.substring(0, n) + '...'
Preview(str, n) == SubSeq(str, 1, Min(n, Len(str))) \o Dots

\* the fixed starts of the matches of SECRET_PATTERNS
PkLive == <<"p", "k", "_", "l", "i", "v", "e", "_">>
SkLive == <<"s", "k", "_", "l", "i", "v", "e", "_">>
PkTest == <<"p", "k", "_", "t", "e", "s", "t", "_">>
SkTest == <<"s", "k", "_", "t", "e", "s", "t", "_">>
NextPublic == <<"N", "E", "X", "T", "_", "P", "U", "B", "L", "I", "C", "_">>

\* what the seven patterns match: a fixed start and a run of characters of
\* the pattern's class, of at least the length the pattern asks for
MatchTexts(name) ==
    CASE name = "Supabase URL" ->
            { <<"S", "U", "P", "A", "B", "A", "S", "E", "_", "U", "R", "L">>,
              <<"s", "u", "p", "a", "b", "a", "s", "e", ".", "c", "o">> }
      [] name = "OpenAI API Key" ->
            { <<"s", "k", "-">> \o Chars(n, "a") : n \in 40..(40 + MaxExtraChars) }
      [] name = "Stripe Live Key" ->
            { start \o Chars(n, "a") : start \in {PkLive, SkLive}, n \in 1..(1 + MaxExtraChars) }
      [] name = "Stripe Test Key" ->
            { start \o Chars(n, "a") : start \in {PkTest, SkTest}, n \in 1..(1 + MaxExtraChars) }
      [] name = "Google API Key" ->
            { <<"A", "I", "z", "a">> \o Chars(35, "a") }
      [] name = "NEXT_PUBLIC Secret" ->
            { NextPublic \o word \o Chars(n, "A") :
                word \in { <<"K", "E", "Y">>, <<"T", "O", "K", "E", "N">>,
                           <<"S", "E", "C", "R", "E", "T">> },
                n \in 0..MaxExtraChars }
      [] name = "Supabase JWT" ->
            { <<"e", "y", "J">> \o Chars(n, "a") : n \in 100..(100 + MaxExtraChars) }

\* a match of a pattern in a bundle; url: the bundle also names the backend,
\* so that a JWT becomes the key of the Data-Exposure probe
SecretMatches ==
    UNION { { [name |-> p.name, severity |-> p.severity, text |-> t, url |-> u] :
                t \in MatchTexts(p.name),
                u \in (IF p.name = "Supabase JWT" THEN BOOLEAN ELSE {FALSE}) } :
            p \in Range(SECRET_PATTERNS) }

InitPreview ==
    /\ sMatch \in SecretMatches
    /\ sStep = "matched" /\ sCheck = Finding("api-keys", "secrets", "pass", <<>>)
    /\ sKeyPreview = <<>>
    /\ input = [json |-> FALSE, kind |-> "none", url |-> NoUrl]
    /\ scanIdle /\ dxIdle /\ vIdle /\ kIdle /\ tIdle /\ uIdle /\ unitIdle

\* detectApiKeys makes its finding of the match, runScan its check of the
\* finding, and checkSupabaseDataExposure the keyPreview of the key
PreviewReport ==
    /\ sStep = "matched"
    /\ sStep' = "reported"
    /\ LET key == IF sMatch.url THEN sMatch.text ELSE <<>>
           finding == ApiKeyFinding(sMatch.name, Preview(sMatch.text, PreviewChars),
                                    sMatch.severity, IF sMatch.url THEN SupabaseUrl ELSE "", key)
       IN /\ sCheck' = KeyFindings(<< finding >>)[1]
          /\ sKeyPreview' = IF sMatch.url THEN Preview(key, KeyPreviewChars) ELSE <<>>
    /\ UNCHANGED sMatch
    /\ UNCHANGED <<scanVars, dxVars, vVars, kVars, tVars, uVars, unitVars>>

NextPreview == PreviewReport

SpecPreview == InitPreview /\ [][NextPreview]_vars

----------------------------------------------------------------------------
(* SpecUrls: discoverUrls for the target https://example.com.  A URL string *)
(* is kept as its parts; a path is a number n that stands for "/pNN", two   *)
(* digits wide, so that the order of the numbers is the order of the        *)
(* strings.                                                                 *)

\* most <loc> entries of the sitemap, lines of robots.txt and script tags of
\* the homepage in the long answers of the model
MaxLocs == 55
MaxRobotsLines == 21
MaxScriptTags == 5

\* matches.slice(0, 50) and .slice(0, 60)
SitemapCap == 50
ResultCap == 60

UrlString(scheme, host, port, path) ==
    [scheme |-> scheme, host |-> host, port |-> port, path |-> path]

\* `${origin}${path}` for a path of the target
Own(n) == UrlString("https", "example.com", "", n)

\* a string that is no absolute URL: new URL(u) throws
Relative(n) == UrlString("", "", "", n)

\* what /sitemap.xml answers: the request fails or answers non-2xx, or the
\* body holds these <loc> entries, in this order
SitemapAnswers ==
    { [ok |-> FALSE, locs |-> <<>>],
      [ok |-> TRUE, locs |-> <<>>],
      [ok |-> TRUE, locs |-> [i \in 1..MaxLocs |-> Own(i)]],
      [ok |-> TRUE, locs |-> << Own(3), Own(1), Own(3), Relative(4),
                                UrlString("https", "other.org", "", 1) >>],
      [ok |-> TRUE, locs |-> << Own(2), UrlString("http", "example.com", "", 2),
                                UrlString("https", "example.com", "8443", 2) >>] }

\* a line of robots.txt after "Disallow:" or "Allow:": "/", a pattern with a
\* "*", a path, or a text without a leading slash
RobotsAnswers ==
    { [ok |-> FALSE, lines |-> <<>>],
      [ok |-> TRUE, lines |-> <<>>],
      [ok |-> TRUE, lines |-> [i \in 1..MaxRobotsLines |-> [kind |-> "path", n |-> 44 + i]]],
      [ok |-> TRUE, lines |-> << [kind |-> "root", n |-> 0], [kind |-> "star", n |-> 0],
                                 [kind |-> "path", n |-> 9], [kind |-> "noslash", n |-> 7],
                                 [kind |-> "path", n |-> 1] >>] }

\* an href of the homepage: a path ("rel"), "//host/..." ("proto"), a
\* stylesheet or icon ("asset"), or an absolute URL ("abs")
Href(kind, url) == [kind |-> kind, url |-> url]

HomeAnswers ==
    { [ok |-> FALSE, hrefs |-> <<>>, scripts |-> 0],
      [ok |-> TRUE, hrefs |-> <<>>, scripts |-> 0],
      [ok |-> TRUE, scripts |-> 1,
       hrefs |-> << Href("rel", Own(2)), Href("asset", Own(90)), Href("proto", Own(91)),
                    Href("abs", Own(5)), Href("abs", UrlString("https", "other.org", "", 1)),
                    Href("abs", UrlString("https", "example.com.evil.io", "", 1)) >>],
      [ok |-> TRUE, scripts |-> MaxScriptTags,
       hrefs |-> << Href("abs", UrlString("https", "example.com", "8443", 6)),
                    Href("rel", Own(1)) >>] }

\* how the bundles answer: the requests fail, or the files are short, or
\* bundle b holds the routes "/p(80+b)" and "/p02", a path under /api/ and a
\* file name
BundleAnswers == {"failed", "short", "routes"}

\* href.startsWith(origin)
StartsWithOrigin(u) ==
    /\ u.scheme = "https"
    /\ u.host \in {"example.com", "example.com.evil.io"}

\* Set.prototype.add: insertion order, no string twice
AddUrl(urls, u) == IF u \in Range(urls) THEN urls ELSE Append(urls, u)

\* urls.add(u) for the strings of us from the i-th on
RECURSIVE AddAll(_, _, _)
AddAll(urls0, us, i) ==
    CHOOSE out \in { IF i > Len(us) THEN urls ELSE AddAll(AddUrl(urls, us[i]), us, i + 1) :
                       urls \in {urls0} } : TRUE

\* step 1: the first 50 <loc> texts, as they are
SitemapUrls(ans) == IF ans.ok THEN Slice(ans.locs, SitemapCap) ELSE <<>>

IsRobotsPath(line) == line.kind \in {"path", "noslash"}

RobotsUrl(line) ==
    IF line.kind = "path" THEN Own(line.n)
    ELSE UrlString("https", "example.comtext", "", line.n)

\* step 2: origin + path for every line but "/" and the patterns
RobotsUrls(ans) ==
    IF ~ans.ok THEN <<>>
    ELSE LET kept == SelectSeq(ans.lines, IsRobotsPath)
         IN [i \in 1..Len(kept) |-> RobotsUrl(kept[i])]

IsKeptHref(h) == h.kind = "rel" \/ (h.kind = "abs" /\ StartsWithOrigin(h.url))

\* step 3: the anchors of the homepage
HomeUrls(ans) ==
    IF ~ans.ok THEN <<>>
    ELSE LET kept == SelectSeq(ans.hrefs, IsKeptHref)
         IN [i \in 1..Len(kept) |-> kept[i].url]

\* step 4: the routes of the first four bundles
BundleUrls(home, bundles) ==
    IF ~home.ok \/ bundles # "routes" THEN <<>>
    ELSE LET n == Min(home.scripts, MaxRouteBundles)
         IN [i \in 1..(2 * n) |-> IF i % 2 = 1 THEN Own(80 + (i + 1) \div 2) ELSE Own(2)]

\* the Set urls before the final filter
UrlSet(in) ==
    AddAll(AddAll(AddAll(AddAll(<<>>, SitemapUrls(in.sitemap), 1),
                         RobotsUrls(in.robots), 1),
                  HomeUrls(in.home), 1),
           BundleUrls(in.home, in.bundles), 1)

\* new URL(u).hostname === new URL(origin).hostname, false when new URL throws
SameHostname(u) == u.scheme # "" /\ u.host = "example.com"

\* the order of the strings: "http:" before "https:", and after the host "/"
\* before ":"
UrlKey(u) ==
    << IF u.scheme = "http" THEN 1 ELSE 2, IF u.port = "" THEN 1 ELSE 2, u.path >>

UrlLess(u, v) ==
    LET a == UrlKey(u)
        b == UrlKey(v)
    IN \/ a[1] < b[1]
       \/ a[1] = b[1] /\ a[2] < b[2]
       \/ a[1] = b[1] /\ a[2] = b[2] /\ a[3] < b[3]

\* Array.prototype.sort() of strings that differ from each other
SortUrls(us) ==
    LET set == Range(us)
        rank(u) == Cardinality({v \in set : UrlLess(v, u)})
    IN [i \in 1..Len(us) |-> CHOOSE u \in set : rank(u) = i - 1]

\* Array.from(urls).filter(...).sort().slice(0, 60)
UrlResult(in) ==
    Slice(SortUrls(SelectSeq(UrlSet(in), SameHostname)), ResultCap)

InitUrls ==
    /\ \E s \in SitemapAnswers, r \in RobotsAnswers, h \in HomeAnswers, b \in BundleAnswers :
          uInput = [sitemap |-> s, robots |-> r, home |-> h, bundles |-> b]
    /\ uStep = "input" /\ uResult = <<>>
    /\ input = [json |-> FALSE, kind |-> "none", url |-> NoUrl]
    /\ scanIdle /\ dxIdle /\ vIdle /\ kIdle /\ tIdle /\ sIdle /\ unitIdle

\* discoverUrls from its call to its return
UrlsReturn ==
    /\ uStep = "input"
    /\ uStep' = "returned"
    /\ uResult' = UrlResult(uInput)
    /\ UNCHANGED uInput
    /\ UNCHANGED <<scanVars, dxVars, vVars, kVars, tVars, sVars, unitVars>>

NextUrls == UrlsReturn

SpecUrls == InitUrls /\ [][NextUrls]_vars


----------------------------------------------------------------------------
(* Claims about the report: score and summary *)

StatusCount(cs, status) == Cardinality({i \in 1..Len(cs) : cs[i].status = status})

\* C1: every report runScan resolves with has score = max(0, min(100,
\* 100 - 20*C - 5*W)), C and W the numbers of critical and warning findings
\* among its checks; so the score is an integer between 0 and 100.
C1_ScoreClamped ==
    ~report.isNull =>
        LET raw == 100 - 20 * StatusCount(report.checks, "critical")
                       - 5 * StatusCount(report.checks, "warning")
        IN /\ report.score = (IF raw < 0 THEN 0 ELSE IF raw > 100 THEN 100 ELSE raw)
           /\ report.score \in 0..100

\* a report whose findings would take the score below 0
C1_Witness ==
    /\ ~report.isNull
    /\ 100 - 20 * StatusCount(report.checks, "critical")
           - 5 * StatusCount(report.checks, "warning") < 0
    /\ report.score = 0

\* C2: in every report the three summary counts are the numbers of critical,
\* warning and pass findings of its checks list, so their sum is the number
\* of findings less the info findings.
C2_SummaryCounts ==
    ~report.isNull =>
        /\ report.summary.critical = StatusCount(report.checks, "critical")
        /\ report.summary.warnings = StatusCount(report.checks, "warning")
        /\ report.summary.passed = StatusCount(report.checks, "pass")
        /\ report.summary.critical + report.summary.warnings + report.summary.passed
              = Len(report.checks) - StatusCount(report.checks, "info")
        /\ report.summary.critical + report.summary.warnings + report.summary.passed
              <= Len(report.checks)

\* a report with findings of all four severities
C2_Witness ==
    /\ ~report.isNull
    /\ \A i \in 1..Len(Statuses) : StatusCount(report.checks, Statuses[i]) > 0

----------------------------------------------------------------------------
(* Claims about POST's answer *)

ValidInput == InputError(input) = NoResponse

\* C3: to a valid request POST answers either 200 with the report runScan
\* resolved with, or 500 with an error and no findings; when the deadline
\* fires before runScan resolves the answer is the error 'Scan timeout', then
\* and after runScan ends.
C3_ReportOrTimeout ==
    (ValidInput /\ post = "responded") =>
        /\ response.status \in {200, 500}
        /\ response.status = 200 =>
              /\ scan = "done" /\ ~report.isNull
              /\ response = [status |-> 200, report |-> report]
        /\ response.status = 500 =>
              /\ response = [status |-> 500, error |-> "Scan timeout"]
              /\ timer = "fired"
        /\ (timer = "fired" /\ scan # "done") => response.status = 500
        /\ race = "timeout" => response.status = 500

\* the deadline fired first, and runScan has since run to its end
C3_Witness ==
    /\ race = "timeout" /\ scan = "done" /\ ~report.isNull
    /\ response = [status |-> 500, error |-> "Scan timeout"]

\* some step of the scan can be taken
ScanCanStep ==
    IF scan = "dx"
    THEN ENABLED (DxTable \/ DxReturn \/ DxCatalog \/ ScanFinish)
    ELSE ENABLED (ScanMerge \/ PathsSettle \/ PathDone
                  \/ ProbeUrls \/ ProbeHeaders \/ ProbeKeys \/ ProbeCors)

\* C4: whichever requests of the probes throw, no probe's promise rejects,
\* runScan is never stuck short of its report, and POST's error answers are
\* the input errors (400) and the deadline (500, 'Scan timeout') only.
C4_ProbeFailuresAbsorbed ==
    /\ \A p \in ProbeNames : slots[p].status # "rejected"
    /\ ScanStarted => (scan = "done" \/ ScanCanStep)
    /\ scan = "done" => ~report.isNull
    /\ response.status = 400 => ~ValidInput
    /\ response.status = 500 => (race = "timeout" /\ response.error = "Scan timeout")
    /\ (post = "responded" /\ ValidInput /\ race # "timeout") => response.status = 200

\* every request of the five probes threw, and POST answered with a report
C4_Witness ==
    /\ ProbeNames \subseteq probeFailed
    /\ response.status = 200
    /\ ~response.report.isNull

HasFinding(cs, Test(_)) == \E i \in 1..Len(cs) : Test(cs[i])

HeaderFindingIds == {"header-" \o k : k \in HeaderNames}

IsHeaderFinding(c) == c.id \in HeaderFindingIds

IsSecretFinding(c) == c.category = "secrets"

IsCorsFinding(c) == c.id = "cors"

IsPagesFinding(c) == c.category = "pages"

\* C5: a probe all of whose requests failed leaves no finding in the report
\* (Header Inspector, Secret Scanner, CORS Prober, URL Discoverer).
C5_FailedProbeLeavesNoFinding ==
    ~report.isNull =>
        /\ "headers" \in probeFailed => ~HasFinding(report.checks, IsHeaderFinding)
        /\ "keys" \in probeFailed => ~HasFinding(report.checks, IsSecretFinding)
        /\ "cors" \in probeFailed => ~HasFinding(report.checks, IsCorsFinding)
        /\ "urls" \in probeFailed => ~HasFinding(report.checks, IsPagesFinding)


----------------------------------------------------------------------------
(* Claims about the Secret Scanner's credentials *)

HoldsRole(b, role) == \E i \in 1..Len(b.jwts) : b.jwts[i].role = role

\* a scanned bundle holds a backend URL, a service_role JWT and an anon JWT
BundleWithBothKeys ==
    \E b \in 1..Min(Len(kInput.scripts), MaxScripts) :
        LET bundle == kInput.scripts[b]
        IN /\ ~kInput.threw /\ kInput.ok
           /\ ~bundle.threw /\ bundle.ok /\ bundle.url
           /\ HoldsRole(bundle, "service_role") /\ HoldsRole(bundle, "anon")

\* C6: when a bundle holds a service_role JWT and an anon JWT next to a
\* backend URL, the service_role key appears only in findings of its own type
\* and the key handed to checkSupabaseDataExposure is the anon key.
C6_AnonKeyUsed ==
    (kStep = "found" /\ BundleWithBothKeys) =>
        /\ \A i \in 1..Len(kFindings) :
              kFindings[i].supabaseKey.role = "service_role"
                  => kFindings[i].type = "Supabase Service Role Key"
        /\ HasCredentials(kCred)
        /\ kCred.supabaseKey.role = "anon"

----------------------------------------------------------------------------
(* Claims about the Sensitive Path Prober *)

HasRootMarker(body) == "idroot" \in body.marks \/ "idapp" \in body.marks

\* C7, as stated: a 200 response whose body holds a root-mount marker gives
\* no exposure finding, whatever its content type.
C7_RootMarkerRejected ==
    ("get" \in vStep /\ ~vResp.threw /\ vResp.status = 200 /\ HasRootMarker(vResp.body)) =>
        /\ vExposed = <<>>
        /\ \A i \in 1..Len(vChecks) : vChecks[i].status \notin {"critical", "warning"}

\* C7, amended: for every path of the catalog, a 200 response whose content
\* type includes text/html and whose body holds a root-mount marker gives no
\* exposure finding, whatever else the body holds.
C7_HtmlRootMarkerRejected ==
    ("get" \in vStep /\ ~vResp.threw /\ vResp.status = 200
        /\ IncludesTextHtml(vResp.ct) /\ HasRootMarker(vResp.body)) =>
        /\ vExposed = <<>>
        /\ vChecks = << Finding("sensitive-paths", "exposure", "pass", Null) >>

\* an HTML page with a root-mount marker that the path's validator would accept
C7_Witness ==
    /\ "get" \in vStep /\ ~vResp.threw /\ vResp.status = 200
    /\ IncludesTextHtml(vResp.ct) /\ HasRootMarker(vResp.body)
    /\ HasValidator(vPath) /\ PATH_VALIDATORS(vPath, vResp.body, vResp.ct)
    /\ vExposed = <<>>

\* the response passed content validation for the path
PassedValidation(path, res) ==
    /\ ~isSpaFallback(res.body, res.ct)
    /\ IF HasValidator(path) THEN PATH_VALIDATORS(path, res.body, res.ct)
       ELSE ~IncludesTextHtml(res.ct)

\* C8, for part_002: a path is exposed only if its response had status 200
\* and passed content validation; otherwise the only finding is the pass.
C8_ExposedOnlyIfValidated ==
    "get" \in vStep =>
        IF ~vResp.threw /\ vResp.status = 200 /\ PassedValidation(vPath, vResp)
        THEN vExposed = << ExposedEntry(vPath, 200) >>
        ELSE /\ vExposed = <<>>
             /\ vChecks = << Finding("sensitive-paths", "exposure", "pass", Null) >>

\* C8: checkSensitivePaths reports a path as exposed only if its response had
\* status 200 and passed content validation - in both files that define it.
C8_BothVersionsValidate ==
    /\ C8_ExposedOnlyIfValidated
    /\ ("head" \in vStep /\ vExposedHead # <<>>) =>
          (~vResp.threw /\ vResp.status = 200 /\ PassedValidation(vPath, vResp))

----------------------------------------------------------------------------
(* Claims about the Data-Exposure Prober *)

IsEmptyTable(t) == t.sampleRows = 0

\* C9: after a run with a non-empty catalog, open tables + blocked tables +
\* accessible-but-empty tables = tablesFound.
C9_ThreeBuckets ==
    (dx = "returned" /\ Len(tableNames) > 0) =>
        DxResult.openTables + Len(DxResult.blockedTables)
            + CountWhere(DxResult.tables, IsEmptyTable) = DxResult.tablesFound

KeysHoldCredentials ==
    \E i \in 1..Len(slots["keys"].value) :
        /\ slots["keys"].value[i].supabaseUrl # ""
        /\ slots["keys"].value[i].supabaseKey # NoKey

\* C10: the Data-Exposure probe starts only after the five probes have
\* settled and only when the Secret Scanner returned a finding with a backend
\* URL and key; otherwise no request goes to the backend and dataLeaks is null.
C10_DataExposureOnlyWithCredentials ==
    /\ (dx # "idle" \/ backendReqs > 0) =>
          /\ \A p \in ProbeNames : slots[p].status = "fulfilled"
          /\ KeysHoldCredentials
          /\ dxKey # NoKey
    /\ (~KeysHoldCredentials \/ "keys" \in probeFailed) =>
          /\ backendReqs = 0 /\ dx = "idle"
          /\ dataLeaks.isNull
          /\ scan = "done" => report.dataLeaks.isNull

\* the probe ran to its end and runScan returned its result
C10_Witness ==
    /\ scan = "done" /\ backendReqs >= 2 /\ ~report.dataLeaks.isNull


----------------------------------------------------------------------------
(* Claims about time: per-call timeouts, the deadline, POST's one answer *)

\* What the probes of the timed model return.  The target is a well-kept
\* site: where it answers, all six headers are set, no sensitive path is
\* open, no endpoint allows every origin and the only secret is the backend
\* credential of tTarget.creds.
TimedReturn(p) ==
    CASE p = "urls" ->
            discoverUrls([threw |-> tReq[p].threw = tReq[p].sent, found |-> <<>>]).value
      [] p = "paths" -> <<>>
      [] p = "headers" ->
            checkSecurityHeaders([threw |-> tReq[p].threw > 0,
                                  headers |-> IF tReq[p].threw > 0 THEN NoHeaders
                                              ELSE HeadersWith(HeaderNames)]).value
      [] p = "keys" ->
            detectApiKeys(HomePage(tReq[p].threw > 0, TRUE,
                IF tTarget.creds /\ tTarget.bundles > 0
                THEN << BundleResponse(TRUE, {"Supabase URL"}, <<Token("anon", 1)>>) >>
                ELSE <<>>)).value
      [] p = "cors" ->
            checkCors([i \in 1..2 |-> [threw |-> tReq[p].threw > 0, acao |-> Null]]).value

\* the findings runScan makes of the five probes' results
TimedProbeChecks ==
    << UrlFinding(TimedReturn("urls")) >>
        \o SensitivePathFindings(TimedReturn("paths"))
        \o HeaderFindings(TimedReturn("headers"))
        \o KeyFindings(TimedReturn("keys"))
        \o << CorsFinding(TimedReturn("cors")) >>

\* the requests of probe p never respond, every other request answers at once
OneUnresponsive(p) ==
    /\ tScan # "idle"
    /\ tTarget.beh[p] = "never"
    /\ \A c \in Chains \ {p} : tTarget.beh[c] = "instant"

\* runScan resolves before the deadline and POST answers with the report, to
\* which every other probe brought the answers to all its requests
AnsweredInTime(p) ==
    /\ tAnswers # <<"timeout">>
    /\ now >= TIMEOUT => tAnswers = <<"report">>
    /\ tScan = "done" =>
          /\ tAnswers = <<"report">>
          /\ tReq[p].threw = tReq[p].sent
          /\ \A q \in ProbeNames \ {p} : tReq[q].sent > 0 /\ tReq[q].threw = 0

\* the report holds no finding of the unresponsive probe (a Sensitive Path
\* Prober without an open path makes the 'sensitive-paths' pass finding)
LacksFindingsOf(p) ==
    tScan = "done" =>
        /\ p = "urls" => ~HasFinding(TimedProbeChecks, IsPagesFinding)
        /\ p = "headers" => ~HasFinding(TimedProbeChecks, IsHeaderFinding)
        /\ p = "keys" => ~HasFinding(TimedProbeChecks, IsSecretFinding)
        /\ p = "cors" => ~HasFinding(TimedProbeChecks, IsCorsFinding)

\* C11: when the requests of exactly one of the five probes never respond and
\* every other request answers at once, runScan resolves before the 25 s
\* deadline and POST returns a complete report that lacks only that probe's
\* findings, whichever probe it is.
C11_OneUnresponsiveProbe ==
    \A p \in ProbeNames : OneUnresponsive(p) => (AnsweredInTime(p) /\ LacksFindingsOf(p))

\* the part of C11 that is about time
C11_InTime ==
    \A p \in ProbeNames : OneUnresponsive(p) => AnsweredInTime(p)

\* the unresponsive probe is the URL Discoverer and the report is returned, 15 s
\* after the request came in
C11_InTimeReached ==
    OneUnresponsive("urls") /\ tScan = "done" /\ tAnswers = <<"report">> /\ now = 15

\* C12: when the deadline expires every request in flight is cancelled and
\* the scan is discarded: once POST has answered 'Scan timeout' no request of
\* the scan is outstanding and none is started any more.
C12_DeadlineCancelsRequests ==
    tAnswers = <<"timeout">> => (InFlight = {} /\ ~tLate)

\* C13: every POST request gets exactly one response, whatever the target
\* does (it never answers, answers slowly, or sends headers and a body that
\* never ends).
C13_ExactlyOneResponse ==
    [](Len(tAnswers) <= 1) /\ <>(Len(tAnswers) = 1)

\* POST has answered 'Scan timeout' while the body of an answer is still
\* awaited
C13_Witness ==
    tAnswers = <<"timeout">> /\ \E c \in Chains : tReq[c].phase = "body"


----------------------------------------------------------------------------
(* Claims about failures of the Data-Exposure probe's requests *)

TableNamesOf(ts) == {ts[i].name : i \in 1..Len(ts)}

\* C14: a table query that fails (non-2xx, network error, abort at the
\* timeout, unparsable body) puts its table into blockedTables and nothing
\* else changes for the other tables; checkSupabaseDataExposure returns a
\* result that covers every cataloged table.
C14_TableFailureIsolated ==
    /\ \A n \in dxSeen.failed : n \in Range(blockedTables) /\ n \notin TableNamesOf(tables)
    /\ \A n \in dxSeen.arrays : n \in TableNamesOf(tables) /\ n \notin Range(blockedTables)
    /\ (dx = "returned" /\ dxSeen.catalog = "listed") =>
          /\ tablePending = {}
          /\ ~DxResult.isNull
          /\ DxResult.tablesFound = Len(tableNames)
          /\ dxSeen.failed = Range(DxResult.blockedTables)
          /\ dxSeen.arrays = TableNamesOf(DxResult.tables)

\* the probe has returned after one query failed and another was answered
\* with an array
C14_Witness ==
    dx = "returned" /\ dxSeen.failed # {} /\ dxSeen.arrays # {}

IsDataExposureFinding(c) == c.id = "supabase-data-exposure"

\* C15: when the catalog request fails (network error, abort at the timeout,
\* non-2xx, unparsable body) or names no usable table,
\* checkSupabaseDataExposure returns null without a single table query, the
\* report's dataLeaks is null and it holds no 'supabase-data-exposure' finding.
C15_CatalogFailureYieldsNull ==
    dxSeen.catalog = "failed" =>
        /\ dx = "returned" /\ DxResult.isNull
        /\ backendReqs = 1 /\ tablePending = {} /\ dxSeen.failed = {} /\ dxSeen.arrays = {}
        /\ ~report.isNull =>
              (report.dataLeaks.isNull /\ ~HasFinding(report.checks, IsDataExposureFinding))

\* a scan has finished whose catalog request failed
C15_Witness ==
    dxSeen.catalog = "failed" /\ scan = "done" /\ ~report.isNull


----------------------------------------------------------------------------
(* Claims about severities and the score of whole scans *)

\* the severity the specification gives an exposed path
ExpectedSeverity(path) ==
    IF path = "/wp-admin" THEN "info"
    ELSE IF path \in CriticalPaths THEN "critical"
    ELSE "warning"

\* C16: the finding of an exposed credential-bearing path is critical, that
\* of any other exposed path a warning, except for /wp-admin: WordPress
\* detection is an info finding, counted neither as critical nor as warning,
\* and does not lower the score.
C16_SeverityByPath ==
    ("get" \in vStep /\ vExposed # <<>>) =>
        /\ \A i \in 1..Len(vChecks) : vChecks[i].status = ExpectedSeverity(vExposed[i].path)
        /\ vPath = "/wp-admin" =>
              Score(StatusCount(vChecks, "critical"), StatusCount(vChecks, "warning")) = 100

\* A finished scan of an https target whose homepage answered with the given
\* headers, on which no sensitive path is open, no bundle holds a secret and
\* no endpoint allows every origin.
ScenarioA(headers) ==
    /\ ~report.isNull
    /\ report.url.scheme = "https://"
    /\ \A p \in ProbeNames : slots[p].status = "fulfilled"
    /\ SlotValue("headers") = headers
    /\ SlotValue("paths") = <<>>
    /\ SlotValue("keys") = <<>>
    /\ ~SlotValue("cors").open

CleanReport ==
    /\ report.score = 100
    /\ report.summary.critical = 0
    /\ report.summary.warnings = 0

----------------------------------------------------------------------------
(* Claims about what the report keeps of a credential *)

\* the characters of needle occur in hay, in a row
Contains(hay, needle) ==
    \E i \in 1..(Len(hay) - Len(needle) + 1) : SubSeq(hay, i, i + Len(needle) - 1) = needle

\* C18: the report never holds a full credential: a secret finding carries
\* the first 8 characters of the match followed by '...', dataLeaks.keyPreview
\* a prefix of fixed length of the key, and no other field holds the key.
C18_NoFullCredential ==
    sStep = "reported" =>
        /\ Len(sCheck.value) = 11
        /\ SubSeq(sCheck.value, 1, 8) = SubSeq(sMatch.text, 1, 8)
        /\ SubSeq(sCheck.value, 9, 11) = Dots
        /\ ~Contains(sCheck.value, sMatch.text)
        /\ DOMAIN sCheck = {"id", "category", "status", "value"}
        /\ sCheck.id = "secret-" \o TypeSlug(sMatch.name)
        /\ sCheck.category = "secrets" /\ sCheck.status = sMatch.severity
        /\ sMatch.url =>
              /\ Len(sKeyPreview) = 23
              /\ SubSeq(sKeyPreview, 1, 20) = SubSeq(sMatch.text, 1, 20)
              /\ SubSeq(sKeyPreview, 21, 23) = Dots
              /\ ~Contains(sKeyPreview, sMatch.text)

\* a JWT next to the backend's URL has been reported
C18_Witness ==
    sStep = "reported" /\ sMatch.name = "Supabase JWT" /\ sMatch.url /\ Len(sMatch.text) > 100


----------------------------------------------------------------------------
(* Claims about malformed requests *)

\* the body is no JSON, its url is missing or empty or no string, or the url
\* does not parse after normalization
Malformed(in) ==
    \/ ~in.json
    \/ in.kind \in {"missing", "nonstring"}
    \/ in.kind = "string" /\ in.url.host = "exa mple"

\* C19: POST answers a malformed request with status 400, and nothing goes
\* out: runScan is not called and the deadline's timer is not started.
C19_MalformedInputRefused ==
    Malformed(input) =>
        /\ post \in {"start", "responded"}
        /\ post = "responded" => response.status = 400
        /\ scan = "idle" /\ timer = "unset" /\ race = "none"
        /\ \A p \in ProbeNames : slots[p].status = "pending"
        /\ pathPending = {} /\ dx = "idle" /\ backendReqs = 0

\* a url that does not parse has been refused
C19_Witness ==
    /\ input.kind = "string" /\ Malformed(input)
    /\ post = "responded" /\ response = ErrorResponse(400, "Invalid URL")


----------------------------------------------------------------------------
(* Claims about the URL Discoverer *)

OwnOrigin(u) == u.scheme = "https" /\ u.host = "example.com" /\ u.port = ""

\* the parts of C20 about the shape of the list
WellFormedUrlList(us) ==
    /\ \A i, j \in 1..Len(us) : i # j => us[i] # us[j]
    /\ \A i, j \in 1..Len(us) : i < j => UrlLess(us[i], us[j])
    /\ Len(us) <= 60
    /\ \A i \in 1..Len(us) : us[i].scheme # ""

\* C20: whatever the four sources answer, discoverUrls returns a list without
\* duplicates, sorted ascending, of at most 60 entries, all of them absolute
\* URLs of the target's own origin.
C20_UrlListInvariants ==
    uStep = "returned" =>
        /\ WellFormedUrlList(uResult)
        /\ \A i \in 1..Len(uResult) : OwnOrigin(uResult[i])

\* the parts of C20 that hold
C20_ListShape ==
    uStep = "returned" => WellFormedUrlList(uResult)

\* more than 60 URLs were found and 60 returned
C20_ListShapeReached ==
    uStep = "returned" /\ Len(UrlSet(uInput)) > 60 /\ Len(uResult) = 60

----------------------------------------------------------------------------
(* Claims about the rows of an exposed table *)

\* the limit the table query asks for: "?limit=3"
QueryLimit == 3

\* C21: every ExposedTable in dataLeaks.tables of a report holds at most 3
\* sample rows, however many rows the backend answered with.
C21_SampleRowsAtMostThree ==
    (scan = "done" /\ ~report.dataLeaks.isNull) =>
        \A i \in 1..Len(report.dataLeaks.tables) :
            report.dataLeaks.tables[i].sampleRows <= QueryLimit

----------------------------------------------------------------------------
(* Claims about the order of the findings *)

\* C22: in every report the checks list is ordered by severity: no warning
\* before a critical finding, no pass before a warning or critical one, no
\* info before a finding of another status: from one finding to the next
\* the rank of the status never falls.
C22_ChecksOrdered ==
    scan = "done" =>
        \A i \in 1..(Len(report.checks) - 1) :
            statusOrder(report.checks[i].status) <= statusOrder(report.checks[i + 1].status)

\* a report with findings of all four statuses; the checks array was pushed
\* in another order (ssl first, the page discovery's info second)
C22_Witness ==
    /\ scan = "done"
    /\ \A s \in Range(Statuses) : HasFinding(report.checks, LAMBDA c : c.status = s)
    /\ Len(report.checks) >= 10

----------------------------------------------------------------------------
(* SpecRedact: redactValue of the scan page (src/app/scan/page.tsx), which  *)
(* prepares one cell of a sample row for display.  Strings are sequences of *)
(* characters; a character outside ASCII is written by its code point.      *)

Uppers == <<"A", "B", "C", "D", "E", "F", "G", "H", "I", "J", "K", "L", "M", "N", "O", "P", "Q", "R", "S", "T", "U", "V", "W", "X", "Y", "Z">>
Lowers == <<"a", "b", "c", "d", "e", "f", "g", "h", "i", "j", "k", "l", "m", "n", "o", "p", "q", "r", "s", "t", "u", "v", "w", "x", "y", "z">>

\* String.prototype.toLowerCase, one character
LowerChar(ch) ==
    IF \E i \in 1..Len(Uppers) : Uppers[i] = ch
    THEN Lowers[CHOOSE i \in 1..Len(Uppers) : Uppers[i] = ch]
    ELSE ch

toLowerCase(str) == [i \in 1..Len(str) |-> LowerChar(str[i])]

Bullet == "U+25CF"
Ellipsis == "U+2026"
EmDash == "U+2014"

\* the return value for a password, hash, secret or token column
MaskChars == 8
Mask == Chars(MaskChars, Bullet)

\* the words that make a column sensitive
SensitiveWords == { <<"p", "a", "s", "s", "w", "o", "r", "d">>, <<"h", "a", "s", "h">>, <<"s", "e", "c", "r", "e", "t">>, <<"t", "o", "k", "e", "n">> }

\* lowerCol.includes('password') || ... || lowerCol.includes('token')
IsSensitiveColumn(col) == \E w \in SensitiveWords : Contains(toLowerCase(col), w)

\* a cell value: its JavaScript type and String(value)
Cell(type, str) == [type |-> type, str |-> str]

\* the column names redactValue is called with
RedactColumns ==
    { <<"p", "a", "s", "s", "w", "o", "r", "d", "_", "h", "a", "s", "h">>,
      <<"P", "a", "s", "s", "w", "o", "r", "d">>,
      <<"a", "p", "i", "_", "t", "o", "k", "e", "n">>,
      <<"C", "L", "I", "E", "N", "T", "_", "S", "E", "C", "R", "E", "T">>,
      <<"s", "h", "a", "2", "5", "6", "h", "a", "s", "h">>,
      <<"e", "m", "a", "i", "l">>,
      <<"u", "s", "e", "r", "_", "i", "d">>,
      <<"n", "a", "m", "e">> }

\* the longest cell text: a bcrypt hash has 60 characters
MaxCellChars == 60

\* The cell values: null, undefined, numbers, booleans, and strings that are
\* empty, short, an e-mail address, 36 characters (a UUID) and long.
RedactCells ==
    { Cell("null", <<>>), Cell("undefined", <<>>),
      Cell("number", <<"0">>), Cell("number", <<"4", "2">>),
      Cell("boolean", <<"t", "r", "u", "e">>), Cell("boolean", <<"f", "a", "l", "s", "e">>),
      Cell("string", <<>>), Cell("string", <<"h", "u", "n", "t", "e", "r", "2">>),
      Cell("string", <<"a", "n", "a", "@", "e", "x", "a", "m", "p", "l", "e", ".", "c", "o", "m">>), Cell("string", <<"a", "@", "b", ".", "c", "o">>),
      Cell("string", Chars(36, "f")), Cell("string", Chars(41, "x")),
      Cell("string", Chars(MaxCellChars, "x")) }

\* String.prototype.indexOf(ch), 0 when absent
IndexOf(str, ch) ==
    IF \E i \in 1..Len(str) : str[i] = ch
    THEN CHOOSE i \in 1..Len(str) : str[i] = ch /\ \A j \in 1..(i - 1) : str[j] # ch
    ELSE 0

\* value.split('@')[0] and value.split('@')[1] of a string that holds an '@'
BeforeAt(str) == SubSeq(str, 1, IndexOf(str, "@") - 1)

AfterAt(str) ==
    LET rest == SubSeq(str, IndexOf(str, "@") + 1, Len(str))
    IN IF IndexOf(rest, "@") = 0 THEN rest ELSE SubSeq(rest, 1, IndexOf(rest, "@") - 1)

EndsWith(str, suffix) ==
    /\ Len(str) >= Len(suffix)
    /\ SubSeq(str, Len(str) - Len(suffix) + 1, Len(str)) = suffix

redactValue(col, value) ==
    LET str == value.str
        lowerCol == toLowerCase(col)
        isString == value.type = "string"
    IN IF value.type \in {"null", "undefined"} THEN <<EmDash>>
       ELSE IF IsSensitiveColumn(col) THEN Mask
       ELSE IF isString /\ IndexOf(str, "@") > 0 /\ IndexOf(str, ".") > 0
            THEN Slice(BeforeAt(str), 2) \o Chars(Max(2, Len(BeforeAt(str)) - 2), "*")
                     \o <<"@">> \o AfterAt(str)
       ELSE IF isString /\ Len(str) > 20
                /\ (lowerCol = <<"i", "d">> \/ EndsWith(lowerCol, <<"_", "i", "d">>) \/ Contains(lowerCol, <<"u", "u", "i", "d">>))
            THEN Slice(str, 8) \o <<Ellipsis>>
       ELSE IF isString /\ Len(str) > 40 THEN Slice(str, 38) \o <<Ellipsis>>
       ELSE str

InitRedact ==
    /\ rCol \in RedactColumns /\ rValue \in RedactCells
    /\ rStep = "called" /\ rOut = <<>>
    /\ input = [json |-> FALSE, kind |-> "none", url |-> NoUrl]
    /\ scanIdle /\ dxIdle /\ vIdle /\ kIdle /\ tIdle /\ uIdle /\ sIdle /\ fIdle /\ oIdle /\ hIdle

RedactReturn ==
    /\ rStep = "called"
    /\ rOut' = redactValue(rCol, rValue)
    /\ rStep' = "returned"
    /\ UNCHANGED <<rCol, rValue>>
    /\ UNCHANGED <<scanVars, dxVars, vVars, kVars, tVars, uVars, sVars, fVars, oVars, hVars>>

NextRedact == RedactReturn

SpecRedact == InitRedact /\ [][NextRedact]_vars

\* C23: for a column whose name contains 'password', 'hash', 'secret' or
\* 'token', redactValue returns the same 8-character mask for every value:
\* string of any length, number, boolean, null or undefined.
C23_SensitiveColumnMasked ==
    (rStep = "returned" /\ IsSensitiveColumn(rCol)) =>
        (rOut = Mask /\ Len(rOut) = MaskChars)

\* the same for the values that are neither null nor undefined
C23_DefinedValueMasked ==
    (rStep = "returned" /\ IsSensitiveColumn(rCol) /\ rValue.type \notin {"null", "undefined"}) =>
        (rOut = Mask /\ Len(rOut) = MaskChars)

C23_DefinedValueReached ==
    /\ rStep = "returned" /\ IsSensitiveColumn(rCol)
    /\ rValue.type = "number" /\ rOut = Mask

----------------------------------------------------------------------------
(* Claims about the counts of the Data-Exposure result *)

IsExposureAlarm(c) == c.id = "supabase-data-exposure" /\ c.status = "critical"

\* C24: after a completed Data-Exposure run tablesFound is the number of
\* cataloged tables, openTables the number of tables that answered with at
\* least one row, and runScan adds the critical 'supabase-data-exposure'
\* finding whenever openTables >= 1.
C24_CountsAndFinding ==
    (dx = "returned" /\ dxSeen.catalog = "listed") =>
        /\ ~DxResult.isNull
        /\ DxResult.tablesFound = dxSeen.listed
        /\ DxResult.openTables = Cardinality(dxSeen.rows)
        /\ DxResult.openTables >= 1 => HasFinding(LeakFindings(DxResult), IsExposureAlarm)

\* scenario C: three tables, one answering with rows and two blocked
C24_Witness ==
    /\ dx = "returned" /\ dxSeen.listed = 3
    /\ Cardinality(dxSeen.rows) = 1 /\ Cardinality(dxSeen.failed) = 2
    /\ DxResult.tablesFound = 3 /\ DxResult.openTables = 1
    /\ Len(DxResult.blockedTables) = 2
    /\ HasFinding(LeakFindings(DxResult), IsExposureAlarm)

\* the same in the report of a scan
C24_ReportHoldsFinding ==
    (scan = "done" /\ ~report.dataLeaks.isNull) =>
        /\ report.dataLeaks.tablesFound = dxSeen.listed
        /\ report.dataLeaks.openTables = Cardinality(dxSeen.rows)
        /\ report.dataLeaks.openTables >= 1 => HasFinding(report.checks, IsExposureAlarm)

C24_ReportReached ==
    /\ scan = "done" /\ ~report.dataLeaks.isNull /\ report.dataLeaks.openTables = 1

----------------------------------------------------------------------------
(* SpecFetch: one call of fetchWithTimeout by a probe and the probe's read  *)
(* of the response body (as checkSensitivePaths does for a 200 answer).     *)
(* Time is counted in seconds from the call and advances from one event to  *)
(* the next: the server's answer, the timer, the end of the body.           *)

\* the timeoutMs values the probes pass
CallTimeouts == {SourceTimeout, BundleTimeout, HomeTimeout}

\* latest time at which the server of the model sends its answer
MaxAnswerAt == 9

\* the server sends no answer at all
NeverAnswers == 0 - 1

\* seconds a late body takes after the headers
BodyDelay == 2

\* What the server does with the request: at time `at` (or never) it answers
\* 200 or 404, or the connection fails; the body of an answer comes with the
\* headers, BodyDelay seconds later, never ends, or breaks off.
FetchAnswers ==
    { [at |-> t, kind |-> k, body |-> b] :
         t \in (0..MaxAnswerAt) \cup {NeverAnswers},
         k \in {"ok", "notfound"}, b \in {"atonce", "late", "never", "broken"} }
    \cup { [at |-> t, kind |-> "neterror", body |-> "none"] : t \in 0..MaxAnswerAt }

\* "const id = setTimeout(...); ... await fetch(url, {...options, signal})"
FetchCall ==
    /\ fPromise = "none"
    /\ fPromise' = "pending"
    /\ fTimer' = "armed"
    /\ fRequest' = "open"
    /\ UNCHANGED <<fNow, fTimeout, fAnswer, fBody, fSettled, fLate>>
    /\ UNCHANGED <<scanVars, dxVars, vVars, kVars, tVars, uVars, sVars, rVars, oVars, hVars>>

\* a plausible slip: the timer is not cleared when the response arrives
FetchAnsweredNoClear ==
    /\ fRequest = "open" /\ fAnswer.kind \in {"ok", "notfound"} /\ fAnswer.at = fNow
    /\ fRequest' = "headers"
    /\ fPromise' = "response"
    /\ fSettled' = fSettled + 1
    /\ fBody' = IF fAnswer.kind = "ok" THEN "reading" ELSE "skipped"
    /\ UNCHANGED <<fNow, fTimeout, fAnswer, fTimer, fLate>>
    /\ UNCHANGED <<scanVars, dxVars, vVars, kVars, tVars, uVars, sVars, rVars, oVars, hVars>>

\* The response headers arrive: fetch resolves, "return res" runs, the finally
\* block clears the timer and the promise fulfils; the caller resumes and,
\* for a 200 answer, starts to read the body.
FetchAnswered ==
    /\ fRequest = "open" /\ fAnswer.kind \in {"ok", "notfound"} /\ fAnswer.at = fNow
    /\ fRequest' = "headers"
    /\ fPromise' = "response"
    /\ fTimer' = "cleared"
    /\ fSettled' = fSettled + 1
    /\ fBody' = IF fAnswer.kind = "ok" THEN "reading" ELSE "skipped"
    /\ UNCHANGED <<fNow, fTimeout, fAnswer, fLate>>
    /\ UNCHANGED <<scanVars, dxVars, vVars, kVars, tVars, uVars, sVars, rVars, oVars, hVars>>

\* The connection fails: fetch rejects, the finally block clears the timer,
\* the promise rejects with the network error and the caller's catch runs.
FetchFailed ==
    /\ fRequest = "open" /\ fAnswer.kind = "neterror" /\ fAnswer.at = fNow
    /\ fRequest' = "failed"
    /\ fPromise' = "neterror"
    /\ fTimer' = "cleared"
    /\ fSettled' = fSettled + 1
    /\ UNCHANGED <<fNow, fTimeout, fAnswer, fBody, fLate>>
    /\ UNCHANGED <<scanVars, dxVars, vVars, kVars, tVars, uVars, sVars, rVars, oVars, hVars>>

\* The timer's callback: controller.abort().  A request still waiting for its
\* headers is cancelled, fetch rejects with the abort error, the finally block
\* runs and the promise rejects.  A body still being read under the same
\* signal breaks off.
FetchTimerFires ==
    /\ fTimer = "armed" /\ fNow = fTimeout
    /\ fTimer' = "fired"
    /\ fLate' = (fLate \/ fPromise # "pending")
    /\ IF fRequest = "open"
       THEN /\ fRequest' = "aborted"
            /\ fPromise' = "abort"
            /\ fSettled' = fSettled + 1
            /\ UNCHANGED fBody
       ELSE /\ fRequest' = IF fBody = "reading" THEN "aborted" ELSE fRequest
            /\ fBody' = IF fBody = "reading" THEN "error" ELSE fBody
            /\ UNCHANGED <<fPromise, fSettled>>
    /\ UNCHANGED <<fNow, fTimeout, fAnswer>>
    /\ UNCHANGED <<scanVars, dxVars, vVars, kVars, tVars, uVars, sVars, rVars, oVars, hVars>>

\* when the body read of the caller ends, if it does
BodyEndsAt ==
    CASE fAnswer.body = "atonce" -> fAnswer.at
      [] fAnswer.body \in {"late", "broken"} -> fAnswer.at + BodyDelay
      [] OTHER -> NeverAnswers

\* "await res.text()" settles: the body is complete, or the connection broke
FetchBodyEnds ==
    /\ fBody = "reading" /\ BodyEndsAt = fNow
    /\ fBody' = IF fAnswer.body = "broken" THEN "error" ELSE "read"
    /\ fRequest' = IF fAnswer.body = "broken" THEN "failed" ELSE "complete"
    /\ UNCHANGED <<fNow, fTimeout, fAnswer, fPromise, fTimer, fSettled, fLate>>
    /\ UNCHANGED <<scanVars, dxVars, vVars, kVars, tVars, uVars, sVars, rVars, oVars, hVars>>

\* the times at which something is due
FetchEventTimes ==
    (IF fRequest = "open" /\ fAnswer.at # NeverAnswers THEN {fAnswer.at} ELSE {})
    \cup (IF fTimer = "armed" THEN {fTimeout} ELSE {})
    \cup (IF fBody = "reading" /\ BodyEndsAt # NeverAnswers THEN {BodyEndsAt} ELSE {})

\* time passes up to the next event, once everything due now has run
FetchTick ==
    /\ fPromise # "none"
    /\ FetchEventTimes # {}
    /\ \A t \in FetchEventTimes : t > fNow
    /\ fNow' = CHOOSE t \in FetchEventTimes : \A o \in FetchEventTimes : t <= o
    /\ UNCHANGED <<fTimeout, fAnswer, fPromise, fTimer, fRequest, fBody, fSettled, fLate>>
    /\ UNCHANGED <<scanVars, dxVars, vVars, kVars, tVars, uVars, sVars, rVars, oVars, hVars>>

InitFetch ==
    /\ fNow = 0 /\ fTimeout \in CallTimeouts /\ fAnswer \in FetchAnswers
    /\ fPromise = "none" /\ fTimer = "unset" /\ fRequest = "none" /\ fBody = "none"
    /\ fSettled = 0 /\ fLate = FALSE
    /\ input = [json |-> FALSE, kind |-> "none", url |-> NoUrl]
    /\ scanIdle /\ dxIdle /\ vIdle /\ kIdle /\ tIdle /\ uIdle /\ sIdle /\ rIdle /\ oIdle /\ hIdle

NextFetch ==
    \/ FetchCall
    \/ FetchAnswered
    \/ FetchFailed
    \/ FetchTimerFires
    \/ FetchBodyEnds
    \/ FetchTick

SpecFetch == InitFetch /\ [][NextFetch]_vars

\* The event loop runs every callback that is ready and the clock goes on.
SpecFetchFair == SpecFetch /\ WF_vars(NextFetch)

----------------------------------------------------------------------------
(* Claims about the Bounded Fetcher *)

\* the probe waits on the network: for the headers, or for the body
WaitsOnNetwork == fRequest = "open" \/ fBody = "reading"

\* C25: at no point does a probe wait on the network, for the response
\* headers or for the body it reads with text()/json(), without the call's
\* timeout timer being armed.
C25_EveryWaitBounded == WaitsOnNetwork => fTimer = "armed"

\* the wait for the headers is bounded
C25_HeaderWaitBounded == fRequest = "open" => fTimer = "armed"

C25_HeaderWaitReached == fRequest = "open" /\ fNow > 0 /\ fTimer = "armed"

\* a body read that no timer ends: the headers came, the timer was cleared,
\* the body never ends and nothing is due any more
C25_UnboundedBodyRead ==
    ~(fBody = "reading" /\ fAnswer.body = "never" /\ fTimer = "cleared" /\ FetchEventTimes = {})

FetchOutcomes == {"response", "neterror", "abort"}

\* C26: every call of fetchWithTimeout settles with exactly one outcome (a
\* response, a network error or an abort error) and is not pending past
\* timeoutMs; when the timer fires with no response the request is aborted;
\* on every outcome the timer is cleared and never fires after the call has
\* settled.
C26_SettlesOnceInTime ==
    /\ [](fSettled <= 1 /\ (fSettled = 1 <=> fPromise \in FetchOutcomes))
    /\ [](fPromise = "pending" => fNow <= fTimeout)
    /\ (fPromise = "pending" ~> fPromise \in FetchOutcomes)
    /\ [](fTimer = "fired" => (fRequest = "aborted" /\ fPromise = "abort"))
    /\ [](fPromise \in FetchOutcomes => fTimer # "armed")
    /\ [](~fLate)

\* a request that got no answer was aborted at its timeout
C26_Witness ==
    /\ fPromise = "abort" /\ fRequest = "aborted" /\ fTimer = "fired"
    /\ fNow = fTimeout /\ fSettled = 1

----------------------------------------------------------------------------
(* SpecOrder: runScan against a target whose answers are fixed beforehand.  *)
(* It starts where POST has called runScan and the five probes have sent    *)
(* their requests; the probes, and the path requests of                     *)
(* checkSensitivePaths, complete in any order.                              *)

\* the paths of the catalog whose requests SpecOrder follows
OrderPaths == {"/.env", "/.git/config", "/wp-admin"}

\* the genuine file or page behind a path
RealFile(path) ==
    CASE path = "/.env" -> PageResponse(200, "", Body({"envline"}, "mid"))
      [] path = "/.git/config" -> PageResponse(200, "", Body({"gitsection"}, "mid"))
      [] path = "/wp-admin" -> PageResponse(200, "text/html; charset=utf-8", Body({"wpmark"}, "mid"))

NotFound == PageResponse(404, "text/html; charset=utf-8", Body({}, "mid"))

\* A target: for each followed path the genuine file or 404; the list
\* discoverUrls comes to; the homepage's headers; the homepage and bundles the
\* Secret Scanner reads (no backend credential); the answers of the two
\* endpoints checkCors asks.
OrderTargets ==
    { [paths |-> f, urls |-> u, home |-> h, keys |-> k, cors |-> c] :
         f \in {g \in [OrderPaths -> {NotFound} \cup {RealFile(p) : p \in OrderPaths}] :
                  \A p \in OrderPaths : g[p] \in {NotFound, RealFile(p)}},
         u \in {[threw |-> FALSE, found |-> <<"https://example.com/about">>]},
         h \in {[threw |-> FALSE, headers |-> NoHeaders],
                [threw |-> FALSE, headers |-> HeadersWith(HeaderNames)]},
         k \in {HomePage(FALSE, TRUE, <<>>),
                HomePage(FALSE, TRUE, << BundleResponse(FALSE, {"OpenAI API Key"}, <<>>) >>)},
         c \in CorsAnswers }

OrderUrls ==
    /\ Settle("urls", discoverUrls(oTarget.urls), FALSE)
    /\ UNCHANGED <<pathPending, exposed>>

OrderHeaders ==
    /\ Settle("headers", checkSecurityHeaders(oTarget.home), FALSE)
    /\ UNCHANGED <<pathPending, exposed>>

OrderKeys ==
    /\ Settle("keys", detectApiKeys(oTarget.keys), FALSE)
    /\ UNCHANGED <<pathPending, exposed>>

\* a plausible slip: any allow-origin header counts as open
CorsIterationAnyOrigin(res) ==
    IF ~res.threw /\ res.acao # Null THEN [open |-> TRUE, header |-> res.acao] ELSE CorsClosed

\* one iteration of checkCors' loop, from the answer of its request: the
\* value it returns, CorsClosed when it returns nothing
CorsIteration(res) ==
    IF ~res.threw /\ res.acao = "*" THEN [open |-> TRUE, header |-> "*"] ELSE CorsClosed

\* The request checkCors waits for settles: it returns at a wildcard, else
\* requests its next endpoint, else returns after the loop.
OrderCors ==
    /\ scan = "probes" /\ slots["cors"].status = "pending"
    /\ IF CorsIteration(oTarget.cors[oCorsSent]).open
       THEN /\ Settle("cors", Fulfilled(CorsIteration(oTarget.cors[oCorsSent])), FALSE)
            /\ UNCHANGED <<pathPending, exposed>>
       ELSE IF oCorsSent < Len(oTarget.cors)
       THEN /\ oCorsSent' = oCorsSent + 1
            /\ UNCHANGED <<scanVars, dxVars, vVars, kVars, tVars, uVars, sVars, rVars, fVars, hVars, oTarget>>
       ELSE /\ Settle("cors", Fulfilled(CorsClosed), \A i \in 1..Len(oTarget.cors) : oTarget.cors[i].threw)
            /\ UNCHANGED <<pathPending, exposed>>

\* one callback of checkSensitivePaths' map runs to its end: whichever
\* request was answered first
OrderPathDone ==
    /\ scan = "probes"
    /\ \E path \in pathPending :
          /\ exposed' = exposed \o PathCallback(path, oTarget.paths[path])
          /\ pathPending' = pathPending \ {path}
    /\ UNCHANGED <<input, post, response, timer, race, scan, baseUrl, checks, slots,
                   probeFailed, dataLeaks, report>>
    /\ UNCHANGED <<dxVars, vVars, kVars, tVars, uVars, sVars, unitVars>>

InitOrder ==
    /\ oTarget \in OrderTargets /\ oCorsSent = 1
    /\ input = [json |-> TRUE, kind |-> "string",
                url |-> [scheme |-> "", host |-> "example.com", slash |-> TRUE]]
    /\ post = "awaiting" /\ response = NoResponse /\ timer = "armed" /\ race = "none"
    /\ scan = "probes" /\ baseUrl = normalizeUrl(input.url)
    /\ checks = << SslFinding(normalizeUrl(input.url)) >>
    /\ slots = [p \in ProbeNames |-> Pending(p)]
    /\ probeFailed = {} /\ pathPending = OrderPaths /\ exposed = <<>>
    /\ dataLeaks = NullLeaks /\ report = NoReport
    /\ dxIdle /\ vIdle /\ kIdle /\ tIdle /\ uIdle /\ sIdle /\ rIdle /\ fIdle /\ hIdle

NextOrder ==
    \/ OrderUrls
    \/ OrderHeaders
    \/ OrderKeys
    \/ OrderCors
    \/ OrderPathDone
    \/ PathsSettle
    \/ ScanMerge

SpecOrder == InitOrder /\ [][NextOrder]_vars

----------------------------------------------------------------------------
(* Claims about the order in which concurrent work completes *)

\* exposed when the path requests complete in the order of the catalog
RECURSIVE CatalogOrderExposed(_, _)
CatalogOrderExposed(target, i) ==
    IF i > Len(SENSITIVE_PATHS) THEN <<>>
    ELSE (IF SENSITIVE_PATHS[i] \in OrderPaths
          THEN PathCallback(SENSITIVE_PATHS[i], target.paths[SENSITIVE_PATHS[i]])
          ELSE <<>>) \o CatalogOrderExposed(target, i + 1)

\* the report of the scan in which the path requests complete in the order
\* of the catalog
CatalogOrderReport(target) ==
    Report(baseUrl,
           << SslFinding(baseUrl), UrlFinding(discoverUrls(target.urls).value) >>
              \o SensitivePathFindings(CatalogOrderExposed(target, 1))
              \o HeaderFindings(checkSecurityHeaders(target.home).value)
              \o KeyFindings(detectApiKeys(target.keys).value)
              \o << CorsFinding(checkCors(target.cors).value) >>,
           discoverUrls(target.urls).value, NullLeaks)

\* C27: for fixed answers of the target the report (findings, their order,
\* score, summary) is the same whatever the order in which the probes settle
\* and the path requests complete: it is the report of the scan whose path
\* requests complete in the order of the catalog.
C27_ReportIndependentOfOrder ==
    scan = "done" => report = CatalogOrderReport(oTarget)

\* the findings as a set, the score and the summary do not depend on the order
C27_FindingsAndScoreFixed ==
    scan = "done" =>
        /\ Range(report.checks) = Range(CatalogOrderReport(oTarget).checks)
        /\ Len(report.checks) = Len(CatalogOrderReport(oTarget).checks)
        /\ report.score = CatalogOrderReport(oTarget).score
        /\ report.summary = CatalogOrderReport(oTarget).summary

C27_FindingsAndScoreReached ==
    /\ scan = "done" /\ Len(exposed) = 3 /\ report # CatalogOrderReport(oTarget)

----------------------------------------------------------------------------
(* Claims about the CORS Prober *)

\* the endpoints that answer with access-control-allow-origin: *
WildcardEndpoints(resps) == {i \in 1..Len(resps) : ~resps[i].threw /\ resps[i].acao = "*"}

FirstWildcard(resps) == CHOOSE i \in WildcardEndpoints(resps) : \A o \in WildcardEndpoints(resps) : i <= o

\* C28: checkCors asks its endpoints in order and stops at the first answer
\* whose access-control-allow-origin is exactly '*': the report has exactly
\* one 'cors' finding, a warning, and no later endpoint is requested; with no
\* wildcard answer (header absent, scoped origin, failed request) the one
\* 'cors' finding is a pass.
C28_FirstWildcardReported ==
    /\ WildcardEndpoints(oTarget.cors) # {} => oCorsSent <= FirstWildcard(oTarget.cors)
    /\ scan = "done" =>
          /\ CountWhere(report.checks, IsCorsFinding) = 1
          /\ \A i \in 1..Len(report.checks) :
                IsCorsFinding(report.checks[i]) =>
                   report.checks[i].status =
                      (IF WildcardEndpoints(oTarget.cors) # {} THEN "warning" ELSE "pass")
          /\ oCorsSent = (IF WildcardEndpoints(oTarget.cors) # {}
                          THEN FirstWildcard(oTarget.cors) ELSE Len(oTarget.cors))

\* both endpoints answer with the wildcard: the first is reported, the second
\* was never asked
C28_Witness ==
    /\ scan = "done" /\ WildcardEndpoints(oTarget.cors) = {1, 2} /\ oCorsSent = 1
    /\ HasFinding(report.checks, LAMBDA c : IsCorsFinding(c) /\ c.status = "warning")

\* a scoped origin, then a failed request: the finding is a pass
C28_NoWildcardReached ==
    /\ scan = "done" /\ oCorsSent = 2
    /\ oTarget.cors[1].acao = "https://example.com" /\ oTarget.cors[2].threw
    /\ HasFinding(report.checks, LAMBDA c : IsCorsFinding(c) /\ c.status = "pass")

----------------------------------------------------------------------------
(* SpecHistory: the scan history the pages keep in localStorage             *)
(* (src/app/layout.tsx), in a browser, from an empty store.  A site is      *)
(* named by a number; the sites are first scanned in the order 1, 2, ...    *)

MAX_ENTRIES == 10

\* most different sites scanned in one behaviour
MaxDomains == 11

\* most calls in one behaviour that are no first scan of a site: scans of a
\* site scanned before, removals, clears
MaxEdits == 2

\* new URL(url).hostname; the url itself when it does not parse
getDomain(url) == IF url.scheme \in {"http://", "https://"} THEN url.host ELSE url

\* { ...entry, domain }: scannedAt stands for the fields the scan filled in
HistoryEntry(url, at) == [url |-> url, domain |-> getDomain(url), scannedAt |-> at]

\* existing.filter(e => e.domain !== domain)
WithoutDomain(store, domain) == SelectSeq(store, LAMBDA e : e.domain # domain)

\* a plausible slip: the new entry is put in front without the filter
SavedUnfiltered(store, entry) == Slice(<<entry>> \o store, MAX_ENTRIES)

\* [{ ...entry, domain }, ...filtered].slice(0, MAX_ENTRIES)
Saved(store, entry) == Slice(<<entry>> \o WithoutDomain(store, entry.domain), MAX_ENTRIES)

\* JSON.parse(JSON.stringify(v)) of a list of entries, whose fields are
\* strings and finite numbers
StoredAndRead(store) == [i \in 1..Len(store) |-> store[i]]

\* saveScanToHistory; written: localStorage.setItem did not throw
Save(url, written) ==
    /\ hStamp' = IF written THEN hStamp + 1 ELSE hStamp
    /\ hStore' = IF written
                 THEN StoredAndRead(Saved(hStore, HistoryEntry(url, hStamp + 1)))
                 ELSE hStore
    /\ hLastSaved' = IF written THEN HistoryEntry(url, hStamp + 1) ELSE hLastSaved
    /\ hFresh' = IF written THEN Max(hFresh, url.host) ELSE hFresh

\* the scan of a site not scanned before is saved
HistorySaveNew ==
    /\ hFresh < MaxDomains
    /\ \E written \in BOOLEAN :
          Save([scheme |-> "https://", host |-> hFresh + 1], written)
    /\ UNCHANGED hEdits
    /\ UNCHANGED <<scanVars, dxVars, vVars, kVars, tVars, uVars, sVars, rVars, fVars, oVars>>

\* the scan of a site scanned before is saved, under its http address
HistorySaveAgain ==
    /\ hEdits < MaxEdits
    /\ \E host \in 1..hFresh, written \in BOOLEAN :
          Save([scheme |-> "http://", host |-> host], written)
    /\ hEdits' = hEdits + 1
    /\ UNCHANGED <<scanVars, dxVars, vVars, kVars, tVars, uVars, sVars, rVars, fVars, oVars>>

\* removeScanFromHistory(domain), for a site scanned before or an unknown one
HistoryRemove ==
    /\ hEdits < MaxEdits
    /\ \E domain \in 0..hFresh, written \in BOOLEAN :
          hStore' = IF written THEN StoredAndRead(WithoutDomain(hStore, domain)) ELSE hStore
    /\ hEdits' = hEdits + 1
    /\ UNCHANGED <<hFresh, hStamp, hLastSaved>>
    /\ UNCHANGED <<scanVars, dxVars, vVars, kVars, tVars, uVars, sVars, rVars, fVars, oVars>>

\* clearScanHistory: localStorage.removeItem; getScanHistory then reads []
HistoryClear ==
    /\ hEdits < MaxEdits
    /\ \E written \in BOOLEAN : hStore' = IF written THEN <<>> ELSE hStore
    /\ hEdits' = hEdits + 1
    /\ UNCHANGED <<hFresh, hStamp, hLastSaved>>
    /\ UNCHANGED <<scanVars, dxVars, vVars, kVars, tVars, uVars, sVars, rVars, fVars, oVars>>

InitHistory ==
    /\ hStore = <<>> /\ hFresh = 0 /\ hStamp = 0 /\ hEdits = 0 /\ hLastSaved = NoEntry
    /\ input = [json |-> FALSE, kind |-> "none", url |-> NoUrl]
    /\ scanIdle /\ dxIdle /\ vIdle /\ kIdle /\ tIdle /\ uIdle /\ sIdle /\ rIdle /\ fIdle /\ oIdle

NextHistory ==
    \/ HistorySaveNew
    \/ HistorySaveAgain
    \/ HistoryRemove
    \/ HistoryClear

SpecHistory == InitHistory /\ [][NextHistory]_vars

----------------------------------------------------------------------------
(* Claims about the scan history *)

\* at most 10 entries, no two of the same domain
HistoryBounded ==
    /\ Len(hStore) <= MAX_ENTRIES
    /\ \A i, j \in 1..Len(hStore) : i # j => hStore[i].domain # hStore[j].domain

\* the entries are in the order of their saves, newest first
NewestFirst == \A i, j \in 1..Len(hStore) : i < j => hStore[i].scannedAt > hStore[j].scannedAt

\* C29 as stated: after any sequence of saves, removals and clears the store
\* has at most 10 entries, no two of one domain, and the entry written by the
\* most recent save is first.
C29_LastSaveFirst ==
    /\ HistoryBounded
    /\ hLastSaved # NoEntry => (hStore # <<>> /\ hStore[1] = hLastSaved)

\* C29: after any sequence of saves, removals and clears from an empty store,
\* the store has at most 10 entries, no two of one domain, newest first; the
\* entry written by the most recent save is the only one of its domain and is
\* first, unless it was removed or cleared since.
C29_HistoryInvariants ==
    /\ [](HistoryBounded /\ NewestFirst)
    /\ [](\A i \in 1..Len(hStore) :
            hStore[i].domain = hLastSaved.domain => (i = 1 /\ hStore[i] = hLastSaved))
    /\ [][ (hStamp' = hStamp + 1) =>
              (hStore'[1] = hLastSaved' /\ hStore'[1].scannedAt = hStamp') ]_vars

\* an eleventh site was saved into a full store after a re-save had replaced
\* an older entry of its domain
C29_Witness ==
    /\ Len(hStore) = MAX_ENTRIES /\ hFresh = MaxDomains
    /\ hStore[1] = hLastSaved
    /\ \E i \in 1..Len(hStore) : hStore[i].url.scheme = "http://"

----------------------------------------------------------------------------
(* Claims about the identifiers of the findings *)

\* C30: within one report no two findings have the same id, whatever the
\* probes returned, also when one kind of secret is matched in more than
\* one of the scanned bundles.
C30_FindingIdsUnique ==
    scan = "done" =>
        \A i, j \in 1..Len(report.checks) :
            i # j => report.checks[i].id # report.checks[j].id

\* the findings that are no secret findings have ids of their own
C30_OtherIdsUnique ==
    scan = "done" =>
        \A i, j \in 1..Len(report.checks) :
            (i # j /\ ~IsSecretFinding(report.checks[i])) =>
                report.checks[i].id # report.checks[j].id

C30_OtherIdsReached ==
    /\ scan = "done" /\ Len(report.checks) >= 10
    /\ \E i, j \in 1..Len(report.checks) :
          i # j /\ report.checks[i].id = report.checks[j].id

====
